---- MODULE Spec2Model ----
(***************************************************************************)
(* State-machine model of EmaneManager (daemon/core/emane/emanemanager.py): *)
(* NEM id allocation, configuration lookup, network registration and the   *)
(* startup / shutdown / reset lifecycle.                                   *)
(***************************************************************************)
EXTENDS Integers, Sequences, FiniteSets, TLC

(* ------------------------------ bounds --------------------------------- *)
MaxNets == 2
MaxIfaces == 3
MaxOps == 4
MaxThreads == 2
MaxSentinel == 2
MaxDeviations == 1
MaxGeo == 4
MaxBatch == 2
\* a podman node: bind mounts, volume mounts, and the host commands of one call
MaxBinds == 1
MaxVolumes == 2
MaxCmds == 8

(* --------------------------- the universe ------------------------------ *)
None == 0
NoModel == "none"
NetIds == 1 .. MaxNets
Ifaces == 1 .. MaxIfaces
Threads == 1 .. MaxThreads
\* the object registered by setup() comes from session.nodes; a thread of
\* SpecAdd carries an object of its own
SessionObj == 0
\* node ids and network ids share the session's id space
FirstNode == MaxNets + 1
\* every interface handle k has a fixed (node id, interface id) pair; the pairs
\* are distinct and descend when the handle ascends
NodeOf(k) == FirstNode + ((MaxIfaces - k + 1) \div 2)
IfaceIdOf(k) == (MaxIfaces - k + 1) % 2
NodeIds == {NodeOf(k) : k \in Ifaces}
\* registered model names (EmaneModelManager) and one that is not registered
Registered == {"rfpipe", "bypass"}
ModelNames == Registered \cup {"ghost"}
NemStarts == {1, 999}
LinkEnabledValues == {0, 1, 2}
EmptyMap == [x \in {} |-> None]

VARIABLES
    emane_nets,       \* _emane_nets: insertion-ordered dict, a sequence of [id, obj]
    nems_to_ifaces,   \* nem id -> interface
    ifaces_to_nems,   \* interface -> nem id
    node_configs,     \* key -> (model name -> config)
    node_models,      \* network id -> model name declared before the network exists
    wireless_model,   \* emane_net.wireless_model, per network id
    topo,             \* interface -> [node, net, tuntap]
    node_up,          \* node.up per node id
    session_nets,     \* the EmaneNet ids among session.nodes
    bindings,         \* LocationEvent is not None
    nem_id_start,     \* option nem_id_start
    link_enabled,     \* option link_enabled
    nem_file,         \* lines of <session dir>/emane_nems
    running,          \* interfaces whose emane daemon is running
    link_monitor,     \* the link monitor is started
    services,         \* nem ids with an event service in the event manager
    poshook,          \* interfaces with poshook = set_nem_position
    event_generate,   \* option emane_event_generate
    disk_ok,          \* the session directory can be written
    nops,             \* history: number of calls made so far
    issued,           \* history: ids returned by next_nem_id since the last reset
    misuse,           \* history: next_nem_id was called on an interface that held an id, since the last reset
    prev,             \* history: the operation called before the last one
    op,               \* the last operation called
    ret,              \* what it returned, or the exception it raised
    out,              \* the external calls it made, in order
    lock,             \* holder of _emane_node_lock, None when free
    pc,               \* per thread: position inside add_node
    targ,             \* per thread: [id, obj] of the network it carries
    tres,             \* per thread: outcome of its last add_node
    added,            \* history: per id, the objects of the add_node calls that succeeded since the map was last cleared
    launch_fails,     \* the interface whose node.cmd raises CoreCommandError in start_daemon, None when none does
    kill_fails,       \* the interface whose kill command raises CoreCommandError in shutdown, None when none does
    started,          \* history: what the last startup() returned, "none" before the first
    link,             \* the last get_nem_link call: its arguments and its result
    position,         \* node.position per node id: [xyz, geo], NoPosition while never set
    gone,             \* node ids that session.get_node no longer finds
    events_in,        \* history: the entries the last location handler call was given
    moved,            \* history: the interfaces the last outbound position call was given
    pending,          \* per thread: the interfaces its startup_nodes loop has yet to start
    podman,           \* a PodmanNode: its options, its fields, the container, and its last call
    lock_log          \* history: the caller thread's acquire and release events on _emane_node_lock in the last operation

vars == <<emane_nets, nems_to_ifaces, ifaces_to_nems, node_configs, node_models,
          wireless_model, topo, node_up, session_nets, bindings, nem_id_start,
          link_enabled, event_generate, disk_ok, nops, nem_file, running, link_monitor, services, poshook,
          issued, misuse, prev, op, ret, out, lock, pc, targ, tres, added,
          launch_fails, kill_fails, started, link, position, gone, events_in, moved, pending,
          podman, lock_log>>

(* ----------------------------- helpers --------------------------------- *)
Put(f, k, v) == [x \in (DOMAIN f) \cup {k} |-> IF x = k THEN v ELSE f[x]]
Range(s) == {s[j] : j \in DOMAIN s}
NetKeys(nets) == {nets[j].id : j \in DOMAIN nets}
\* dict[key] = value on an insertion-ordered dict: an existing key keeps its place
DictSet(nets, e) ==
    IF e.id \in NetKeys(nets)
    THEN [j \in DOMAIN nets |-> IF nets[j].id = e.id THEN e ELSE nets[j]]
    ELSE Append(nets, e)
RECURSIVE SeqOfSet(_)
SeqOfSet(S) ==
    IF S = {} THEN <<>>
    ELSE LET x == CHOOSE y \in S : \A z \in S : y <= z
         IN <<x>> \o SeqOfSet(S \ {x})

(* ------------------------- configuration store ------------------------- *)
OptNames == {"external"}
OptValues == 0 .. MaxSentinel
\* a config is a dict from option names to values; the values stand for the
\* strings "0", "1", ...
Configs == UNION {[D -> OptValues] : D \in SUBSET OptNames}
\* utils.iface_config_id(node_id, iface_id): the composite key of an interface;
\* a node id or network id used as a key is the pair with no interface part
iface_config_id(node_id, iface_id) == <<node_id, iface_id>>
IdKey(id) == <<id, -1>>
\* the control channel options, which hold "<group>:<port>" strings: value 0 is
\* the default group with the default port, 1 the same group with another port,
\* 2 another group
GroupOptNames == {"otamanagergroup", "eventservicegroup"}
\* EmaneModel.default_values(): every recognized option with its default
default_values(model) == [o \in OptNames \cup GroupOptNames |-> 0]
NoneResult == [exc |-> "none", isnone |-> TRUE, val |-> EmptyMap]
Some(cfg) == [exc |-> "none", isnone |-> FALSE, val |-> cfg]
Raised(e) == [exc |-> e, isnone |-> TRUE, val |-> EmptyMap]
\* Python truthiness of a config: None and the empty dict are both falsy
Falsy(r) == r.isnone \/ DOMAIN r.val = {}

get_model_ok(model) == model \in Registered

\* get_config that hands out the defaults whatever the default flag says
get_config_always_default(store, key, model, default) ==
    IF ~get_model_ok(model) THEN Raised("CoreError:model")
    ELSE LET has == key \in DOMAIN store /\ DOMAIN store[key] # {}
                    /\ model \in DOMAIN store[key]
         IN IF has THEN Some(store[key][model])
            ELSE Some(default_values(model))

get_config(store, key, model, default) ==
    IF ~get_model_ok(model) THEN Raised("CoreError:model")
    ELSE LET has == key \in DOMAIN store /\ DOMAIN store[key] # {}
                    /\ model \in DOMAIN store[key]
         IN IF has THEN Some(store[key][model])
            ELSE IF default THEN Some(default_values(model))
            ELSE NoneResult

\* dict.update
Update(base, cfg) ==
    [o \in (DOMAIN base) \cup (DOMAIN cfg) |-> IF o \in DOMAIN cfg THEN cfg[o] ELSE base[o]]

\* set_config that stores cfg as given
set_config_replace(store, key, model, cfg) ==
    IF ~get_model_ok(model) THEN [store |-> store, exc |-> "CoreError:model"]
    ELSE LET model_configs == IF key \in DOMAIN store THEN store[key] ELSE EmptyMap
         IN [store |-> Put(store, key, Put(model_configs, model, cfg)), exc |-> "none"]

\* set_config(key, model, cfg): the store afterwards and what was raised;
\* get_model raises before anything is written
set_config(store, key, model, cfg) ==
    IF ~get_model_ok(model) THEN [store |-> store, exc |-> "CoreError:model"]
    ELSE LET model_config == Update(get_config(store, key, model, TRUE).val, cfg)
             model_configs == IF key \in DOMAIN store THEN store[key] ELSE EmptyMap
         IN [store |-> Put(store, key, Put(model_configs, model, model_config)),
             exc |-> "none"]

\* get_iface_config that asks for the node's config before the interface's
get_iface_config_swapped(store, model_name, net_id, node_id, iface_id) ==
    LET c1 == get_config(store, IdKey(node_id), model_name, FALSE)
        c2 == get_config(store, iface_config_id(node_id, iface_id), model_name, FALSE)
        c3 == get_config(store, IdKey(net_id), model_name, FALSE)
    IN IF ~Falsy(c1) THEN c1.val
       ELSE IF ~Falsy(c2) THEN c2.val
       ELSE IF ~Falsy(c3) THEN c3.val
       ELSE default_values(model_name)

\* get_iface_config(emane_net, iface) for a network whose model is model_name
get_iface_config(store, model_name, net_id, node_id, iface_id) ==
    LET c1 == get_config(store, iface_config_id(node_id, iface_id), model_name, FALSE)
        c2 == get_config(store, IdKey(node_id), model_name, FALSE)
        c3 == get_config(store, IdKey(net_id), model_name, FALSE)
    IN IF ~Falsy(c1) THEN c1.val
       ELSE IF ~Falsy(c2) THEN c2.val
       ELSE IF ~Falsy(c3) THEN c3.val
       ELSE default_values(model_name)

\* config_reset that also clears the configs of the node's interfaces
config_reset_configs_ifaces(store, node_id) ==
    IF node_id = None THEN EmptyMap
    ELSE [key \in DOMAIN store |-> IF key[1] = node_id THEN EmptyMap ELSE store[key]]

\* config_reset(node_id); node_id = None clears everything
config_reset_configs(store, node_id) ==
    IF node_id = None THEN EmptyMap
    ELSE IF IdKey(node_id) \in DOMAIN store
         THEN Put(store, IdKey(node_id), EmptyMap)
         ELSE store
config_reset_models(models, node_id) ==
    IF node_id = None THEN EmptyMap
    ELSE [n \in (DOMAIN models) \ {node_id} |-> models[n]]

(* ------------------------------ get_ifaces ----------------------------- *)
\* sort key of line 289: (iface.node.id, iface.id)
KeyLeq(t, a, b) ==
    \/ t[a].node < t[b].node
    \/ t[a].node = t[b].node /\ IfaceIdOf(a) <= IfaceIdOf(b)
\* one step of a stable sort: p goes after every element whose key is <= its own
RECURSIVE InsertPair(_, _, _)
InsertPair(t, s, p) ==
    IF s = <<>> THEN <<p>>
    ELSE IF KeyLeq(t, s[1][2], p[2]) THEN <<s[1]>> \o InsertPair(t, Tail(s), p)
    ELSE <<p>> \o s
RECURSIVE SortPairs(_, _, _)
SortPairs(t, done, todo) ==
    IF todo = <<>> THEN done
    ELSE SortPairs(t, InsertPair(t, done, todo[1]), Tail(todo))
\* emane_net.get_ifaces(): the interfaces attached to the network
NetIfaces(t, net_id) == SeqOfSet({k \in Ifaces : t[k].net = net_id})
RECURSIVE CollectIfaces(_, _, _)
CollectIfaces(t, net_id, ks) ==
    IF ks = <<>> THEN <<>>
    ELSE LET k == ks[1]
             rest == CollectIfaces(t, net_id, Tail(ks))
         IN IF t[k].node = None THEN rest
            ELSE IF t[k].tuntap THEN <<(<<net_id, k>>)>> \o rest
            ELSE rest
RECURSIVE CollectNets(_, _, _)
CollectNets(nets, wm, t) ==
    IF nets = <<>> THEN <<>>
    ELSE LET id == nets[1].id
             rest == CollectNets(Tail(nets), wm, t)
         IN IF wm[id] = NoModel THEN rest
            ELSE CollectIfaces(t, id, NetIfaces(t, id)) \o rest
\* get_ifaces without the final sort
get_ifaces_unsorted(nets, wm, t) == CollectNets(nets, wm, t)
get_ifaces(nets, wm, t) == SortPairs(t, <<>>, CollectNets(nets, wm, t))

(* --------------------------- NEM ids and ports ------------------------- *)
\* the while loop of next_nem_id
RECURSIVE SearchNem(_, _)
SearchNem(nem_id, keys) == IF nem_id \in keys THEN SearchNem(nem_id + 1, keys) ELSE nem_id
RECURSIVE Digits(_)
Digits(n) == IF n < 10 THEN 1 ELSE 1 + Digits(n \div 10)
RECURSIVE Pow10(_)
Pow10(w) == IF w = 0 THEN 1 ELSE 10 * Pow10(w - 1)
\* f"{nem_id:03}": at least three digits, more when the number needs them
PadWidth == 3
PortPrefix == 47
FormatWidth(n) == IF Digits(n) < PadWidth THEN PadWidth ELSE Digits(n)
\* int(f"47{nem_id:03}") for a non-negative nem id: "47" followed by the digits
get_nem_port(i2n, iface) == PortPrefix * Pow10(FormatWidth(i2n[iface])) + i2n[iface]

(* ------------------------------ get_nem_link --------------------------- *)
\* MessageFlags values a caller passes
Flags == {"NONE", "ADD"}
\* session.get_link_color(network id): the color assigned to the network
get_link_color(net_id) == <<"color", net_id>>
NoColor == <<"none", 0>>
LinkNone ==
    [kind |-> "none", message_type |-> "NONE", type |-> "NONE", node1_id |-> None,
     node2_id |-> None, network_id |-> None, color |-> NoColor]
LinkRaised == [LinkNone EXCEPT !.kind = "AttributeError"]
LinkData(flags, node1_id, node2_id, network_id, color) ==
    [kind |-> "link", message_type |-> flags, type |-> "WIRELESS", node1_id |-> node1_id,
     node2_id |-> node2_id, network_id |-> network_id, color |-> color]

\* get_nem_link that does not compare the two networks
get_nem_link_any_net(n2i, t, nem1, nem2, flags) ==
    IF nem1 \notin DOMAIN n2i THEN LinkNone
    ELSE IF nem2 \notin DOMAIN n2i THEN LinkNone
    ELSE LET iface1 == n2i[nem1]
             iface2 == n2i[nem2]
         IN IF t[iface1].node = None \/ t[iface2].node = None THEN LinkRaised
            ELSE LinkData(flags, t[iface1].node, t[iface2].node, t[iface1].net,
                          get_link_color(t[iface1].net))

\* get_nem_link(nem1, nem2, flags); node1.id on a missing node is an
\* AttributeError, reached only when both NEMs are known and on one network
get_nem_link(n2i, t, nem1, nem2, flags) ==
    IF nem1 \notin DOMAIN n2i THEN LinkNone
    ELSE IF nem2 \notin DOMAIN n2i THEN LinkNone
    ELSE LET iface1 == n2i[nem1]
             iface2 == n2i[nem2]
         IN IF t[iface1].net # t[iface2].net THEN LinkNone
            ELSE IF t[iface1].node = None \/ t[iface2].node = None THEN LinkRaised
            ELSE LinkData(flags, t[iface1].node, t[iface2].node, t[iface1].net,
                          get_link_color(t[iface1].net))

(* ---------------------------- location events ------------------------- *)
\* a latitude, longitude or altitude is one of the tokens 0 .. MaxGeo; a
\* coordinate of the session's space is a decimal number counted in tenths
GeoTokens == 0 .. MaxGeo
Tenths == 10
\* one axis of session.location.getxyz: the tokens project to 0.0, -0.1, -1.0,
\* 65535.9, 65536.0 and to values above 70000
Projected(g) ==
    CASE g = 0 -> 0
      [] g = 1 -> -1
      [] g = 2 -> -10
      [] g = 3 -> 655359
      [] g = 4 -> 655360
      [] OTHER -> 700000 + g
\* session.location.getxyz(lat, lon, alt): x from the longitude, y from the
\* latitude, z from the altitude
getxyz(lat, lon, alt) == <<Projected(lon), Projected(lat), Projected(alt)>>
\* int(x) of a float: truncation toward zero
PyInt(v) == IF v >= 0 THEN v \div Tenths ELSE -((-v) \div Tenths)
\* int.bit_length(): the bits of the absolute value
RECURSIVE bit_length(_)
bit_length(n) ==
    IF n < 0 THEN bit_length(-n)
    ELSE IF n = 0 THEN 0
    ELSE 1 + bit_length(n \div 2)
CoordBits == 16
\* the check of lines 608-610 without its sign test
bit_check_unsigned(v) == bit_length(v) > CoordBits
bit_check(v) == bit_length(v) > CoordBits \/ v < 0

\* The location handlers act on a record st: pos (node.position per node id),
\* out (broadcasts and log entries so far), ret and exc.
\* handlelocationeventtoxyz that moves the node with node.setposition(x, y, z),
\* which runs the position hook of the node's interfaces
handlelocationeventtoxyz_hooked(st, n2i, t, missing, nemid, lat, lon, alt) ==
    IF nemid \notin DOMAIN n2i
    THEN [st EXCEPT !.ret = "False", !.out = Append(@, <<"log_info", nemid, 0>>)]
    ELSE IF t[n2i[nemid]].node = None THEN [st EXCEPT !.exc = "AttributeError"]
    ELSE LET n == t[n2i[nemid]].node
             xyz == getxyz(lat, lon, alt)
             x == PyInt(xyz[1])
             y == PyInt(xyz[2])
             z == PyInt(xyz[3])
             hooked == IF n2i[nemid] \in poshook
                       THEN << <<"publish_location", n2i[nemid], nemid>> >>
                       ELSE <<>>
         IN IF bit_check(x) \/ bit_check(y) \/ bit_check(z)
            THEN [st EXCEPT !.ret = "False", !.out = Append(@, <<"log_error", nemid, 0>>)]
            ELSE IF n \in missing
            THEN [st EXCEPT !.ret = "False", !.out = Append(@, <<"log_exception", nemid, n>>)]
            ELSE [st EXCEPT !.ret = "True",
                            !.pos[n] = [xyz |-> <<x, y, z>>, geo |-> <<lon, lat, alt>>],
                            !.out = (@ \o hooked) \o << <<"broadcast", n, 0>> >>]

\* handlelocationeventtoxyz(nemid, lat, lon, alt)
handlelocationeventtoxyz(st, n2i, t, missing, nemid, lat, lon, alt) ==
    IF nemid \notin DOMAIN n2i
    THEN [st EXCEPT !.ret = "False", !.out = Append(@, <<"log_info", nemid, 0>>)]
    ELSE IF t[n2i[nemid]].node = None THEN [st EXCEPT !.exc = "AttributeError"]
    ELSE LET n == t[n2i[nemid]].node
             xyz == getxyz(lat, lon, alt)
             x == PyInt(xyz[1])
             y == PyInt(xyz[2])
             z == PyInt(xyz[3])
         IN IF bit_check(x) \/ bit_check(y) \/ bit_check(z)
            THEN [st EXCEPT !.ret = "False", !.out = Append(@, <<"log_error", nemid, 0>>)]
            ELSE IF n \in missing
            THEN [st EXCEPT !.ret = "False", !.out = Append(@, <<"log_exception", nemid, n>>)]
            ELSE [st EXCEPT !.ret = "True",
                            !.pos[n] = [xyz |-> <<x, y, z>>, geo |-> <<lon, lat, alt>>],
                            !.out = Append(@, <<"broadcast", n, 0>>)]

\* a position nobody has set
NoPosition == [xyz |-> <<>>, geo |-> <<>>]

\* session.location.getgeo(x, y, z): (lat, lon, alt), the inverse of getxyz; a
\* node nobody placed is at the origin
GeoOf(v) ==
    IF \E g \in GeoTokens : PyInt(Projected(g)) = v
    THEN CHOOSE g \in GeoTokens :
            /\ PyInt(Projected(g)) = v
            /\ \A h \in GeoTokens : PyInt(Projected(h)) = v => g <= h
    ELSE 0
getgeo(xyz) == IF xyz = <<>> THEN <<0, 0, 0>> ELSE <<GeoOf(xyz[2]), GeoOf(xyz[1]), GeoOf(xyz[3])>>

\* get_nem_position that takes the interface's NEM id for granted
get_nem_position_unchecked(st, i2n, t, iface) ==
    LET n == t[iface].node
        geo == getgeo(st.pos[n].xyz)
        alt == IF st.pos[n].geo # <<>> THEN st.pos[n].geo[3] ELSE geo[3]
    IN IF n = None THEN [st EXCEPT !.exc = "AttributeError"]
       ELSE [st EXCEPT !.ret = "position",
                       !.nem = IF iface \in DOMAIN i2n THEN i2n[iface] ELSE None,
                       !.pos[n].geo = <<geo[2], geo[1], alt>>]

\* get_nem_position(iface): st.ret is "None" or "position", st.nem the NEM id of
\* the tuple; node.position.set_geo(lon, lat, alt) is its side effect, with the
\* altitude the node already has in preference to the converted one
get_nem_position(st, i2n, t, iface) ==
    IF iface \notin DOMAIN i2n
    THEN [st EXCEPT !.ret = "None", !.out = Append(@, <<"log_info", None, iface>>)]
    ELSE LET n == t[iface].node
             geo == getgeo(st.pos[n].xyz)
             alt == IF st.pos[n].geo # <<>> THEN st.pos[n].geo[3] ELSE geo[3]
         IN IF n = None THEN [st EXCEPT !.exc = "AttributeError"]
            ELSE [st EXCEPT !.ret = "position", !.nem = i2n[iface],
                            !.pos[n].geo = <<geo[2], geo[1], alt>>]

\* set_nem_position(iface)
set_nem_position(st, i2n, t, iface) ==
    LET s1 == get_nem_position(st, i2n, t, iface)
    IN IF s1.exc # "none" THEN s1
       ELSE IF s1.ret = "position"
       THEN [s1 EXCEPT !.ret = "None",
                       !.out = Append(@, <<"publish_location", iface, s1.nem>>)]
       ELSE [s1 EXCEPT !.ret = "None"]

\* the loop of set_nem_positions: the positions list is the batch entries of out
RECURSIVE CollectPositions(_, _, _, _)
CollectPositions(st, i2n, t, todo) ==
    IF todo = <<>> \/ st.exc # "none" THEN st
    ELSE LET s1 == get_nem_position(st, i2n, t, todo[1])
             s2 == IF s1.exc = "none" /\ s1.ret = "position"
                   THEN [s1 EXCEPT !.out = Append(@, <<"batch_entry", todo[1], s1.nem>>)]
                   ELSE s1
         IN CollectPositions(s2, i2n, t, Tail(todo))

IsEntry(e) == e[1] = "batch_entry"
\* set_nem_positions(moved_ifaces)
set_nem_positions(st, i2n, t, moved_ifaces) ==
    IF moved_ifaces = <<>> THEN [st EXCEPT !.ret = "None"]
    ELSE LET s1 == CollectPositions(st, i2n, t, moved_ifaces)
         IN IF s1.exc # "none" THEN s1
            ELSE [s1 EXCEPT !.ret = "None",
                            !.out = Append(@, <<"publish_locations",
                                                Len(SelectSeq(s1.out, IsEntry)), 0>>)]
GeoAttrs == {"latitude", "longitude", "altitude"}
Complete(event) == GeoAttrs \subseteq DOMAIN event.attrs

\* handlelocationevent that gives up the batch at the first invalid entry
RECURSIVE handlelocationevent_stops(_, _, _, _, _)
handlelocationevent_stops(st, n2i, t, missing, events) ==
    IF events = <<>> \/ st.exc # "none" THEN [st EXCEPT !.ret = "None"]
    ELSE LET event == events[1]
         IN IF ~Complete(event)
            THEN [st EXCEPT !.ret = "None", !.out = Append(@, <<"log_warning", 0, 0>>)]
            ELSE handlelocationevent_stops(
                     handlelocationeventtoxyz(st, n2i, t, missing, event.nem,
                         event.attrs["latitude"], event.attrs["longitude"],
                         event.attrs["altitude"]),
                     n2i, t, missing, Tail(events))

\* handlelocationevent(events)
RECURSIVE handlelocationevent(_, _, _, _, _)
handlelocationevent(st, n2i, t, missing, events) ==
    IF events = <<>> \/ st.exc # "none" THEN [st EXCEPT !.ret = "None"]
    ELSE LET event == events[1]
         IN IF ~Complete(event)
            THEN handlelocationevent(
                     [st EXCEPT !.out = Append(@, <<"log_warning", 0, 0>>)],
                     n2i, t, missing, Tail(events))
            ELSE handlelocationevent(
                     handlelocationeventtoxyz(st, n2i, t, missing, event.nem,
                         event.attrs["latitude"], event.attrs["longitude"],
                         event.attrs["altitude"]),
                     n2i, t, missing, Tail(events))

(* ------------------------ the manager's operations --------------------- *)
\* The operations below are functions on a record m of the manager's state and
\* of what it acts on: nets, n2i, i2n, wm, file, issued, running, lm, services,
\* hook, out (the external calls so far) and exc (the exception that ended the
\* operation, "none" while none was raised).
Call(m, entry) == [m EXCEPT !.out = Append(@, entry)]
Raise(m, e) == [m EXCEPT !.exc = e]
\* with self._emane_node_lock: entering the block takes the lock, leaving it,
\* by its end, a return or an exception, releases it; locks is the sequence
\* of these events of the calling thread
Acquire(m) == [m EXCEPT !.locks = Append(@, "acquire")]
Release(m) == [m EXCEPT !.locks = Append(@, "release")]

\* write_nem that opens the file for writing, not for appending
write_nem_truncates(m, t, iface, nem_id, oserr) ==
    IF oserr THEN m
    ELSE IF t[iface].node = None THEN Raise(m, "AttributeError")
    ELSE [m EXCEPT !.file = << <<t[iface].node, iface, nem_id>> >>]

\* write_nem: appends "<node name> <iface name> <nem id>"; an OSError of
\* path.open is logged, not raised; once the file is open, an interface without
\* node has no node.name to format
write_nem(m, t, iface, nem_id, oserr) ==
    IF oserr THEN m
    ELSE IF t[iface].node = None THEN Raise(m, "AttributeError")
    ELSE [m EXCEPT !.file = Append(@, <<t[iface].node, iface, nem_id>>)]

\* next_nem_id that ignores the nem_id_start option
next_nem_id_from_one(m, t, start, iface, oserr) ==
    LET nem_id == SearchNem(1, DOMAIN m.n2i)
        m1 == [m EXCEPT !.n2i = Put(@, nem_id, iface),
                        !.i2n = Put(@, iface, nem_id),
                        !.issued = Append(@, nem_id)]
    IN write_nem(m1, t, iface, nem_id, oserr)

\* next_nem_id without the while loop
next_nem_id_no_search(m, t, start, iface, oserr) ==
    LET nem_id == start
        m1 == [m EXCEPT !.n2i = Put(@, nem_id, iface),
                        !.i2n = Put(@, iface, nem_id),
                        !.issued = Append(@, nem_id)]
    IN write_nem(m1, t, iface, nem_id, oserr)

\* next_nem_id that takes the node lock around its two assignments
next_nem_id_locked(m, t, start, iface, oserr) ==
    LET m0 == Acquire(m)
        nem_id == SearchNem(start, DOMAIN m0.n2i)
        m1 == [m0 EXCEPT !.n2i = Put(@, nem_id, iface),
                         !.i2n = Put(@, iface, nem_id),
                         !.issued = Append(@, nem_id)]
    IN write_nem(Release(m1), t, iface, nem_id, oserr)

\* next_nem_id(iface); the id it returns is the last element of issued
next_nem_id(m, t, start, iface, oserr) ==
    LET nem_id == SearchNem(start, DOMAIN m.n2i)
        m1 == [m EXCEPT !.n2i = Put(@, nem_id, iface),
                        !.i2n = Put(@, iface, nem_id),
                        !.issued = Append(@, nem_id)]
    IN write_nem(m1, t, iface, nem_id, oserr)

\* add_node(emane_net), the whole call
add_node(m, e) ==
    LET m0 == Acquire(m)
    IN Release(IF e.id \in NetKeys(m0.nets) THEN Raise(m0, "CoreError:duplicate")
               ELSE [m0 EXCEPT !.nets = DictSet(@, e)])

\* reset() that forgets ifaces_to_nems
reset_keeps_ifaces(m) ==
    Call([m EXCEPT !.nets = <<>>, !.n2i = EmptyMap, !.issued = <<>>, !.services = {}],
         <<"event_reset", 0, 0>>)

\* reset() that leaves nems_to_ifaces as it is
reset_keeps_nems(m) ==
    Call([m EXCEPT !.nets = <<>>, !.i2n = EmptyMap, !.issued = <<>>, !.services = {}],
         <<"event_reset", 0, 0>>)

\* reset()
reset(m) ==
    Release(Call([Acquire(m) EXCEPT !.nets = <<>>, !.n2i = EmptyMap, !.i2n = EmptyMap,
                                    !.issued = <<>>, !.services = {}],
                 <<"event_reset", 0, 0>>))

\* check_node_models(): in dict order, the first network with neither a model
\* nor a declared node model raises ValueError
RECURSIVE check_node_models(_, _, _)
check_node_models(m, models, todo) ==
    IF todo = <<>> THEN m
    ELSE LET id == todo[1].id
         IN IF m.wm[id] # NoModel THEN check_node_models(m, models, Tail(todo))
            ELSE IF id \notin DOMAIN models THEN Raise(m, "ValueError")
            ELSE IF ~get_model_ok(models[id]) THEN Raise(m, "CoreError:model")
            ELSE check_node_models([m EXCEPT !.wm[id] = models[id]], models, Tail(todo))

RECURSIVE AddSessionNets(_, _)
AddSessionNets(m, todo) ==
    IF todo = <<>> \/ m.exc # "none" THEN m
    ELSE AddSessionNets(add_node(m, [id |-> todo[1], obj |-> SessionObj]), Tail(todo))

\* setup() that never looks at the bindings
setup_no_bindings_check(m, snets, bound, models) ==
    LET m1 == AddSessionNets(m, SeqOfSet(snets))
    IN IF m1.exc # "none" THEN [m |-> m1, status |-> "raised"]
       ELSE IF m1.nets = <<>> THEN [m |-> m1, status |-> "NOT_NEEDED"]
       ELSE LET m2 == check_node_models(m1, models, m1.nets)
            IN [m |-> m2, status |-> IF m2.exc = "none" THEN "SUCCESS" ELSE "raised"]

\* setup(): [m, status]; status is meaningful when m.exc = "none"
setup(m, snets, bound, models) ==
    LET m1 == AddSessionNets(m, SeqOfSet(snets))
    IN IF m1.exc # "none" THEN [m |-> m1, status |-> "raised"]
       ELSE IF m1.nets = <<>> THEN [m |-> m1, status |-> "NOT_NEEDED"]
       ELSE IF ~bound THEN [m |-> Raise(m1, "CoreError:bindings"), status |-> "raised"]
       ELSE LET m2 == check_node_models(m1, models, m1.nets)
            IN [m |-> m2, status |-> IF m2.exc = "none" THEN "SUCCESS" ELSE "raised"]

\* config[...].split(":")[0]: the group of a "<group>:<port>" value
GroupOf(v) == v \div 2

\* setup_control_channels that installs both routes whatever the groups are
setup_control_channels_both(m, iface, nem_id, config) ==
    LET otagroup == GroupOf(config["otamanagergroup"])
        eventgroup == GroupOf(config["eventservicegroup"])
        m1 == Call([m EXCEPT !.services = @ \cup {nem_id}], <<"create_service", iface, nem_id>>)
        m2 == Call(m1, <<"create_route", iface, otagroup>>)
    IN Call(m2, <<"create_route", iface, eventgroup>>)

\* setup_control_channels(nem_id, iface, config): the event service of the nem,
\* then the multicast routes on the node
setup_control_channels(m, iface, nem_id, config) ==
    LET otagroup == GroupOf(config["otamanagergroup"])
        eventgroup == GroupOf(config["eventservicegroup"])
        m1 == Call([m EXCEPT !.services = @ \cup {nem_id}], <<"create_service", iface, nem_id>>)
        m2 == Call(m1, <<"create_route", iface, otagroup>>)
    IN IF eventgroup # otagroup THEN Call(m2, <<"create_route", iface, eventgroup>>) ELSE m2

\* start_daemon(iface): node.cmd raises CoreCommandError when the command fails
start_daemon(m, iface, nem_id, lf) ==
    IF iface = lf
    THEN Raise(Call(m, <<"launch", iface, nem_id>>), "CoreCommandError")
    ELSE Call([m EXCEPT !.running = @ \cup {iface}], <<"launch", iface, nem_id>>)

\* install_iface that sets the addresses whatever the external option says
install_iface_always_ips(m, evgen, iface, nem_id, config) ==
    LET m1 == Call(m, <<"set_ips", iface, 0>>)
    IN IF evgen
       THEN Call([m1 EXCEPT !.hook = @ \cup {iface}], <<"publish_location", iface, nem_id>>)
       ELSE m1

\* install_iface(iface, config); iface.setposition() runs the hook just set,
\* set_nem_position, which publishes the location of the nem
install_iface(m, evgen, iface, nem_id, config) ==
    LET external == IF "external" \in DOMAIN config THEN config["external"] ELSE 0
        m1 == IF external = 0 THEN Call(m, <<"set_ips", iface, 0>>) ELSE m
    IN IF evgen
       THEN Call([m1 EXCEPT !.hook = @ \cup {iface}], <<"publish_location", iface, nem_id>>)
       ELSE m1

\* start_iface up to the platform XML (lines 259-269); the log line needs the
\* interface's node and get_iface_config the network's model
start_iface_prepare(m, t, start, store, net_id, iface, oserr) ==
    LET m1 == next_nem_id(m, t, start, iface, oserr)
        nem_id == m1.i2n[iface]
        nem_port == get_nem_port(m1.i2n, iface)
        config == get_iface_config(store, m1.wm[net_id], net_id, t[iface].node, IfaceIdOf(iface))
        m2 == setup_control_channels(m1, iface, nem_id, config)
    IN IF m1.exc # "none" THEN m1
       ELSE IF t[iface].node = None \/ m1.wm[net_id] = NoModel THEN Raise(m1, "AttributeError")
       ELSE Call(m2, <<"platform_xml", iface, nem_port>>)

\* start_iface from the daemon launch on (lines 270-271)
start_iface_launch(m, t, store, evgen, net_id, iface, lf) ==
    LET nem_id == m.i2n[iface]
        config == get_iface_config(store, m.wm[net_id], net_id, t[iface].node, IfaceIdOf(iface))
        m1 == start_daemon(m, iface, nem_id, lf)
    IN IF m1.exc # "none" THEN m1
       ELSE install_iface(m1, evgen, iface, nem_id, config)

\* start_iface that launches the daemon before anything else
start_iface_launch_first(m, t, start, store, evgen, net_id, iface, oserr, lf) ==
    LET m1 == next_nem_id(m, t, start, iface, oserr)
        m2 == start_daemon(m1, iface, m1.i2n[iface], lf)
        nem_port == get_nem_port(m2.i2n, iface)
        config == get_iface_config(store, m2.wm[net_id], net_id, t[iface].node, IfaceIdOf(iface))
        m3 == Call(setup_control_channels(m2, iface, m2.i2n[iface], config),
                   <<"platform_xml", iface, nem_port>>)
    IN IF m1.exc # "none" THEN m1
       ELSE IF m2.exc # "none" THEN m2
       ELSE install_iface(m3, evgen, iface, m3.i2n[iface], config)

\* start_iface(emane_net, iface)
start_iface(m, t, start, store, evgen, net_id, iface, oserr, lf) ==
    LET m1 == start_iface_prepare(m, t, start, store, net_id, iface, oserr)
    IN IF m1.exc # "none" THEN m1
       ELSE start_iface_launch(m1, t, store, evgen, net_id, iface, lf)

\* the loop of startup_nodes: an exception of start_iface ends it
RECURSIVE StartIfaces(_, _, _, _, _, _, _, _)
StartIfaces(m, t, start, store, evgen, todo, oserr, lf) ==
    IF todo = <<>> \/ m.exc # "none" THEN m
    ELSE StartIfaces(start_iface(m, t, start, store, evgen, todo[1][1], todo[1][2], oserr, lf),
                     t, start, store, evgen, Tail(todo), oserr, lf)

\* startup_nodes() that takes the interfaces as collected, unsorted
startup_nodes_unsorted(m, t, start, store, evgen, oserr, lf) ==
    StartIfaces(m, t, start, store, evgen, get_ifaces_unsorted(m.nets, m.wm, t), oserr, lf)

\* startup_nodes()
startup_nodes(m, t, start, store, evgen, oserr, lf) ==
    Release(StartIfaces(Acquire(m), t, start, store, evgen, get_ifaces(m.nets, m.wm, t),
                        oserr, lf))

links_enabled(le) == le = 1

\* startup() that goes on to startup_nodes whatever setup() did
startup_ignores_failure(m, t, start, store, evgen, snets, bound, models, le, oserr, lf) ==
    LET s == setup(reset(m), snets, bound, models)
        m1 == startup_nodes([s.m EXCEPT !.exc = "none"], t, start, store, evgen, oserr, lf)
        m2 == IF links_enabled(le)
              THEN Call([m1 EXCEPT !.lm = TRUE], <<"link_monitor_start", 0, 0>>)
              ELSE m1
    IN IF s.m.exc # "none" THEN [m |-> Raise(m2, s.m.exc), status |-> "raised"]
       ELSE IF s.status # "SUCCESS" THEN [m |-> m2, status |-> s.status]
       ELSE IF m1.exc # "none" THEN [m |-> m1, status |-> "raised"]
       ELSE [m |-> m2, status |-> "SUCCESS"]

\* startup() without the reset() of its first line
startup_no_reset(m, t, start, store, evgen, snets, bound, models, le, oserr, lf) ==
    LET s == setup(m, snets, bound, models)
    IN IF s.status # "SUCCESS" THEN s
       ELSE LET m1 == startup_nodes(s.m, t, start, store, evgen, oserr, lf)
                m2 == IF links_enabled(le)
                      THEN Call([m1 EXCEPT !.lm = TRUE], <<"link_monitor_start", 0, 0>>)
                      ELSE m1
            IN IF m1.exc # "none" THEN [m |-> m1, status |-> "raised"]
               ELSE [m |-> m2, status |-> "SUCCESS"]

\* startup(): [m, status]
startup(m, t, start, store, evgen, snets, bound, models, le, oserr, lf) ==
    LET s == setup(reset(m), snets, bound, models)
    IN IF s.status # "SUCCESS" THEN s
       ELSE LET m1 == startup_nodes(s.m, t, start, store, evgen, oserr, lf)
                m2 == IF links_enabled(le)
                      THEN Call([m1 EXCEPT !.lm = TRUE], <<"link_monitor_start", 0, 0>>)
                      ELSE m1
            IN IF m1.exc # "none" THEN [m |-> m1, status |-> "raised"]
               ELSE [m |-> m2, status |-> "SUCCESS"]

\* iface.setposition(): runs the interface's position hook, when it has one and
\* a node; the hook is set_nem_position, which publishes when the interface has
\* a NEM id
setposition(m, t, iface) ==
    LET m1 == Call(m, <<"setposition", iface, 0>>)
    IN IF iface \in m1.hook /\ t[iface].node # None /\ iface \in DOMAIN m1.i2n
       THEN Call(m1, <<"publish_location", iface, m1.i2n[iface]>>)
       ELSE m1

\* the inner loop of poststartup over emane_net.get_ifaces(); a network without
\* model has no wireless_model.post_startup
RECURSIVE PostStartIfaces(_, _, _, _, _)
PostStartIfaces(m, t, evgen, net_id, ks) ==
    IF ks = <<>> \/ m.exc # "none" THEN m
    ELSE IF m.wm[net_id] = NoModel THEN Raise(m, "AttributeError")
    ELSE LET m1 == Call(m, <<"post_startup", ks[1], net_id>>)
             m2 == IF evgen THEN setposition(m1, t, ks[1]) ELSE m1
         IN PostStartIfaces(m2, t, evgen, net_id, Tail(ks))

\* the outer loop: for node_id in sorted(self._emane_nets)
RECURSIVE PostStartNets(_, _, _, _)
PostStartNets(m, t, evgen, ids) ==
    IF ids = <<>> \/ m.exc # "none" THEN m
    ELSE PostStartNets(PostStartIfaces(m, t, evgen, ids[1], NetIfaces(t, ids[1])),
                       t, evgen, Tail(ids))

\* poststartup() that fires the positions whatever the option says
poststartup_always_fires(m, t, evgen) == PostStartNets(m, t, TRUE, SeqOfSet(NetKeys(m.nets)))

\* poststartup()
poststartup(m, t, evgen) ==
    Release(PostStartNets(Acquire(m), t, evgen, SeqOfSet(NetKeys(m.nets))))

\* the loop of shutdown: an exception of iface.shutdown or of the kill command
\* ends it
RECURSIVE ShutdownIfaces(_, _, _, _, _)
ShutdownIfaces(m, t, up, todo, kf) ==
    IF todo = <<>> \/ m.exc # "none" THEN m
    ELSE LET iface == todo[1][2]
         IN IF ~up[t[iface].node] THEN ShutdownIfaces(m, t, up, Tail(todo), kf)
            ELSE IF iface = kf
            THEN Raise(Call(m, <<"kill", iface, 0>>), "CoreCommandError")
            ELSE ShutdownIfaces(
                     Call([m EXCEPT !.running = @ \ {iface}, !.hook = @ \ {iface}],
                          <<"kill", iface, 0>>),
                     t, up, Tail(todo), kf)

\* shutdown() without the early return on an empty network map
shutdown_no_guard(m, t, up, le, kf) ==
    LET m1 == IF links_enabled(le)
              THEN Call([m EXCEPT !.lm = FALSE], <<"link_monitor_stop", 0, 0>>)
              ELSE m
        m2 == ShutdownIfaces(m1, t, up, get_ifaces(m1.nets, m1.wm, t), kf)
    IN IF m2.exc # "none" THEN m2
       ELSE Call([m2 EXCEPT !.services = {}], <<"event_shutdown", 0, 0>>)

\* shutdown() that gives the NEM ids of the interfaces it stopped back
shutdown_releases_nems(m, t, up, le, kf) ==
    IF m.nets = <<>> THEN m
    ELSE LET m1 == shutdown_no_guard(m, t, up, le, kf)
             stopped == {p[2] : p \in Range(get_ifaces(m.nets, m.wm, t))} \ m1.running
         IN [m1 EXCEPT !.i2n = [k \in (DOMAIN @) \ stopped |-> @[k]],
                       !.n2i = [n \in {x \in DOMAIN @ : @[x] \notin stopped} |-> @[n]]]

\* shutdown()
shutdown(m, t, up, le, kf) ==
    LET m0 == Acquire(m)
    IN IF m0.nets = <<>> THEN Release(m0)
       ELSE LET m1 == IF links_enabled(le)
                      THEN Call([m0 EXCEPT !.lm = FALSE], <<"link_monitor_stop", 0, 0>>)
                      ELSE m0
                m2 == ShutdownIfaces(m1, t, up, get_ifaces(m1.nets, m1.wm, t), kf)
            IN IF m2.exc # "none" THEN Release(m2)
               ELSE Release(Call([m2 EXCEPT !.services = {}], <<"event_shutdown", 0, 0>>))

(* ----------------------------- a podman node --------------------------- *)
\* A PodmanNode is a record p: its options (compose, compose_name, binds,
\* volumes, and delete, the volumes marked delete), its fields up, pid and
\* ifaces, container (the container exists), and its last call: op, out (the
\* host commands it issued, in order) and ret ("None" or the exception).
\* PodmanNode(...): the node after __init__
PodmanNode(compose, compose_name, binds, volumes, delete) ==
    [compose |-> compose, compose_name |-> compose_name, binds |-> binds,
     volumes |-> volumes, delete |-> delete,
     up |-> FALSE, pid |-> 0, ifaces |-> {}, container |-> FALSE,
     op |-> "init", out |-> <<>>, ret |-> "None"]

\* what a command that went through changes
CmdEffect(p, cmd) ==
    CASE cmd[1] \in {"run", "compose_up"} -> [p EXCEPT !.container = TRUE]
      [] cmd[1] \in {"rm", "compose_down"} -> [p EXCEPT !.container = FALSE]
      [] OTHER -> p

\* host_cmd(args) inside a call (makenodedir's mkdir included): skipped once
\* the call has raised; the command
\* is issued, and CoreCommandError is raised when it fails; fail is the
\* position, among the commands of the call, of the one that fails, 0 for none
host_cmd(p, cmd, fail) ==
    IF p.ret # "None" THEN p
    ELSE LET p1 == [p EXCEPT !.out = Append(@, cmd)]
         IN IF Len(p1.out) = fail THEN [p1 EXCEPT !.ret = "CoreCommandError"]
            ELSE CmdEffect(p1, cmd)

RECURSIVE HostCmds(_, _, _)
HostCmds(p, cmds, fail) ==
    IF cmds = <<>> THEN p
    ELSE HostCmds(host_cmd(p, cmds[1], fail), Tail(cmds), fail)

\* the commands of the loops over binds and over volumes, in dict order
RECURSIVE BindLinks(_)
BindLinks(todo) ==
    IF todo = <<>> THEN <<>> ELSE << <<"ln_bind", todo[1]>> >> \o BindLinks(Tail(todo))
RECURSIVE VolumeLinks(_)
VolumeLinks(todo) ==
    IF todo = <<>> THEN <<>>
    ELSE << <<"volume_inspect", todo[1]>>, <<"ln_volume", todo[1]>> >> \o VolumeLinks(Tail(todo))
RECURSIVE VolumeRemovals(_, _)
VolumeRemovals(todo, delete) ==
    IF todo = <<>> THEN <<>>
    ELSE (IF todo[1] \in delete THEN << <<"volume_rm", todo[1]>> >> ELSE <<>>)
            \o VolumeRemovals(Tail(todo), delete)

\* PodmanNode.startup()
PodmanNode_startup(p, fail) ==
    LET p0 == [p EXCEPT !.op = "startup", !.out = <<>>, !.ret = "None"]
    IN IF p0.up THEN [p0 EXCEPT !.ret = "CoreError:up"]
       ELSE LET p1 == host_cmd(p0, <<"mkdir", 0>>, fail)
            IN IF p1.ret # "None" THEN p1
               ELSE IF p1.compose /\ ~p1.compose_name
               THEN [p1 EXCEPT !.ret = "CoreError:compose_name"]
               ELSE LET cmds == IF p1.compose
                                THEN << <<"cat_compose", 0>>, <<"write_compose", 0>>,
                                        <<"compose_up", 0>> >>
                                ELSE << <<"run", 0>> >> \o BindLinks(SeqOfSet(p1.binds))
                                        \o VolumeLinks(SeqOfSet(p1.volumes))
                        p2 == HostCmds(p1, cmds, fail)
                        p3 == host_cmd(p2, <<"inspect_pid", 0>>, fail)
                    IN IF p3.ret # "None" THEN p3 ELSE [p3 EXCEPT !.pid = 1, !.up = TRUE]

\* PodmanNode.shutdown()
PodmanNode_shutdown(p, fail) ==
    LET p0 == [p EXCEPT !.op = "shutdown", !.out = <<>>, !.ret = "None"]
    IN IF ~p0.up THEN p0
       ELSE LET p1 == [p0 EXCEPT !.ifaces = {}]
                cmds == IF p1.compose THEN << <<"compose_down", 0>> >>
                        ELSE << <<"rm", 0>> >>
                                \o VolumeRemovals(SeqOfSet(p1.volumes), p1.delete)
                p2 == HostCmds(p1, cmds, fail)
            IN IF p2.ret # "None" THEN p2 ELSE [p2 EXCEPT !.up = FALSE]

(* ------------------------------ the actions ---------------------------- *)
Mgr == [nets |-> emane_nets, n2i |-> nems_to_ifaces, i2n |-> ifaces_to_nems,
        wm |-> wireless_model, file |-> nem_file, issued |-> issued,
        running |-> running, lm |-> link_monitor, services |-> services,
        hook |-> poshook, out |-> <<>>, exc |-> "none", locks |-> <<>>]

\* the caller's add_node calls that succeeded, appended to the history
AddedAfter(m, cleared) ==
    [id \in NetIds |->
        LET before == IF cleared THEN <<>> ELSE added[id]
            new == id \in NetKeys(m.nets) /\ (cleared \/ id \notin NetKeys(emane_nets))
        IN IF new THEN Append(before, SessionObj) ELSE before]

\* what get_nem_link returned and what the location handlers act on
QueryVars == <<link, position, gone, events_in, moved>>

Commit(m, name, result, cleared) ==
    /\ emane_nets' = m.nets
    /\ nems_to_ifaces' = m.n2i
    /\ ifaces_to_nems' = m.i2n
    /\ wireless_model' = m.wm
    /\ nem_file' = m.file
    /\ issued' = m.issued
    /\ running' = m.running
    /\ link_monitor' = m.lm
    /\ services' = m.services
    /\ poshook' = m.hook
    /\ out' = m.out
    /\ lock_log' = m.locks
    /\ prev' = op
    /\ op' = name
    /\ ret' = IF m.exc # "none" THEN m.exc ELSE result
    /\ added' = AddedAfter(m, cleared)
    /\ started' = IF name # "startup" THEN started
                  ELSE IF m.exc # "none" THEN "raised" ELSE result
    /\ UNCHANGED QueryVars

BaseEnv == <<node_models, topo, node_up, session_nets, bindings,
             nem_id_start, link_enabled, event_generate, disk_ok, launch_fails, kill_fails>>
Env == <<BaseEnv, podman>>
ThreadVars == <<lock, pc, targ, tres, pending>>
ManagerVars == <<emane_nets, nems_to_ifaces, ifaces_to_nems, wireless_model, nem_file,
                 issued, running, link_monitor, services, poshook>>

\* with self._emane_node_lock: the lock can be taken when nobody holds it
\* a lock that excludes nobody
CanAcquireUnlocked(l) == TRUE
CanAcquire(l) == l = None
\* the caller thread takes and releases the lock inside its operation
LockFree == CanAcquire(lock)
Called ==
    /\ nops < MaxOps
    /\ nops' = nops + 1
NoMisuse == [direct |-> FALSE, nodes |-> FALSE]
\* no get_nem_link call made yet
NoLink == [nem1 |-> 0, nem2 |-> 0, flags |-> "NONE", ret |-> LinkNone]

Startup ==
    /\ LockFree
    /\ Called
    /\ LET s == startup(Mgr, topo, nem_id_start, node_configs, event_generate,
                        session_nets, bindings, node_models, link_enabled, ~disk_ok,
                        launch_fails)
       IN Commit(s.m, "startup", s.status, TRUE)
    /\ misuse' = NoMisuse
    /\ UNCHANGED <<node_configs, Env, ThreadVars>>

Setup ==
    /\ LockFree
    /\ Called
    /\ LET s == setup(Mgr, session_nets, bindings, node_models)
       IN Commit(s.m, "setup", s.status, FALSE)
    /\ UNCHANGED <<misuse, node_configs, Env, ThreadVars>>

StartupNodes ==
    /\ LockFree
    /\ Called
    /\ Commit(startup_nodes(Mgr, topo, nem_id_start, node_configs, event_generate, ~disk_ok,
                            launch_fails),
              "startup_nodes", "None", FALSE)
    /\ misuse' = [misuse EXCEPT !.nodes =
                    @ \/ \E p \in Range(get_ifaces(emane_nets, wireless_model, topo)) :
                            p[2] \in DOMAIN ifaces_to_nems]
    /\ UNCHANGED <<node_configs, Env, ThreadVars>>

Shutdown ==
    /\ LockFree
    /\ Called
    /\ Commit(shutdown(Mgr, topo, node_up, link_enabled, kill_fails), "shutdown", "None", FALSE)
    /\ UNCHANGED <<misuse, node_configs, Env, ThreadVars>>

Poststartup ==
    /\ LockFree
    /\ Called
    /\ Commit(poststartup(Mgr, topo, event_generate), "poststartup", "None", FALSE)
    /\ UNCHANGED <<misuse, node_configs, Env, ThreadVars>>

Reset ==
    /\ LockFree
    /\ Called
    /\ Commit(reset(Mgr), "reset", "None", TRUE)
    /\ misuse' = NoMisuse
    /\ UNCHANGED <<node_configs, Env, ThreadVars>>

NextNemId(iface) ==
    /\ Called
    /\ Commit(next_nem_id(Mgr, topo, nem_id_start, iface, ~disk_ok), "next_nem_id", "id", FALSE)
    /\ misuse' = [misuse EXCEPT !.direct = @ \/ iface \in DOMAIN ifaces_to_nems]
    /\ UNCHANGED <<node_configs, Env, ThreadVars>>

\* start_iface called for one interface of a network, as the session does for
\* a link made at runtime; it takes no lock
StartIface(iface) ==
    /\ Called
    /\ Commit(start_iface(Mgr, topo, nem_id_start, node_configs, event_generate,
                          topo[iface].net, iface, ~disk_ok, launch_fails),
              "start_iface", "None", FALSE)
    /\ misuse' = [misuse EXCEPT !.direct = @ \/ iface \in DOMAIN ifaces_to_nems]
    /\ UNCHANGED <<node_configs, Env, ThreadVars>>

AddNode(id) ==
    /\ LockFree
    /\ Called
    /\ Commit(add_node(Mgr, [id |-> id, obj |-> SessionObj]), "add_node", "None", FALSE)
    /\ UNCHANGED <<misuse, node_configs, Env, ThreadVars>>

\* get_ifaces() called for its result, which the state determines
GetIfaces ==
    /\ Called
    /\ op' = "get_ifaces"
    /\ prev' = op
    /\ ret' = "list"
    /\ out' = <<>>
    /\ UNCHANGED <<ManagerVars, lock_log, added, misuse, started, QueryVars, node_configs, Env, ThreadVars>>

\* the NEM ids a caller asks about: every id startup can assign and one below
NemProbes == (nem_id_start - 1) .. (nem_id_start + MaxIfaces - 1)

GetNemLink(nem1, nem2, flags) ==
    /\ Called
    /\ LET r == get_nem_link(nems_to_ifaces, topo, nem1, nem2, flags)
       IN /\ link' = [nem1 |-> nem1, nem2 |-> nem2, flags |-> flags, ret |-> r]
          /\ ret' = CASE r.kind = "none" -> "None"
                      [] r.kind = "link" -> "LinkData"
                      [] OTHER -> r.kind
    /\ op' = "get_nem_link"
    /\ prev' = op
    /\ out' = <<>>
    /\ UNCHANGED <<ManagerVars, lock_log, added, misuse, started, position, gone, events_in, moved,
                   node_configs, Env, ThreadVars>>

Loc == [pos |-> position, out |-> <<>>, ret |-> "None", exc |-> "none", nem |-> None]
CommitLoc(st, name, events) ==
    /\ events_in' = events
    /\ moved' = moved
    /\ position' = st.pos
    /\ out' = st.out
    /\ ret' = IF st.exc # "none" THEN st.exc ELSE st.ret
    /\ op' = name
    /\ prev' = op
    /\ UNCHANGED <<ManagerVars, lock_log, added, misuse, started, link, gone, node_configs, Env,
                   ThreadVars>>

\* the NEM ids of inbound events: one nobody holds and the first two assigned
LocProbes == (nem_id_start - 1) .. (nem_id_start + 1)

\* the (lat, lon, alt) of inbound events: at most one of the three away from
\* token 0, or all three the same
LocInputs ==
    {g \in GeoTokens \X GeoTokens \X GeoTokens :
        \/ Cardinality({j \in 1 .. 3 : g[j] # 0}) <= 1
        \/ g[1] = g[2] /\ g[2] = g[3]}

HandleToXyz(nemid, lat, lon, alt) ==
    /\ Called
    /\ CommitLoc(handlelocationeventtoxyz(Loc, nems_to_ifaces, topo, gone, nemid, lat, lon, alt),
                 "handlelocationeventtoxyz",
                 << [nem |-> nemid,
                     attrs |-> [a \in GeoAttrs |->
                                  CASE a = "latitude" -> lat
                                    [] a = "longitude" -> lon
                                    [] OTHER -> alt]] >>)

CommitPos(st, name, ifaces) ==
    /\ moved' = ifaces
    /\ position' = st.pos
    /\ out' = st.out
    /\ ret' = IF st.exc # "none" THEN st.exc ELSE st.ret
    /\ op' = name
    /\ prev' = op
    /\ UNCHANGED <<ManagerVars, lock_log, added, misuse, started, link, gone, events_in, node_configs,
                   Env, ThreadVars>>

GetNemPosition(iface) ==
    /\ Called
    /\ CommitPos(get_nem_position(Loc, ifaces_to_nems, topo, iface), "get_nem_position",
                 <<iface>>)

SetNemPosition(iface) ==
    /\ Called
    /\ CommitPos(set_nem_position(Loc, ifaces_to_nems, topo, iface), "set_nem_position",
                 <<iface>>)

\* the lists of interfaces a mobility model reports as moved: no interface twice
MovedLists ==
    UNION {{f \in [1 .. n -> Ifaces] : \A a, b \in 1 .. n : a # b => f[a] # f[b]} :
              n \in 0 .. MaxIfaces}

SetNemPositions(moved_ifaces) ==
    /\ Called
    /\ CommitPos(set_nem_positions(Loc, ifaces_to_nems, topo, moved_ifaces),
                 "set_nem_positions", moved_ifaces)

\* the entries an inbound batch can hold: a NEM id and a dict of attributes,
\* each attribute absent or with one of its values
AttrValues(a) ==
    CASE a = "latitude" -> {0}
      [] a = "longitude" -> {0, MaxGeo}
      [] a = "altitude" -> {0}
      [] OTHER -> {1}
AttrNames == GeoAttrs \cup {"yaw"}
\* at most one attribute is absent
Attrs ==
    UNION {{f \in [D -> GeoTokens \cup {1}] : \A a \in D : f[a] \in AttrValues(a)} :
              D \in {E \in SUBSET AttrNames : Cardinality(AttrNames \ E) <= 1}}
Events == [nem : LocProbes \ {nem_id_start - 1}, attrs : Attrs]
Batches == UNION {[1 .. n -> Events] : n \in 0 .. MaxBatch}

HandleLocationEvent(events) ==
    /\ Called
    /\ CommitLoc(handlelocationevent(Loc, nems_to_ifaces, topo, gone, events),
                 "handlelocationevent", events)

(* add_node step by step, one thread among several *)
AddAcquire(t, id) ==
    /\ pc[t] = "idle"
    /\ CanAcquire(lock)
    /\ lock' = t
    /\ pc' = [pc EXCEPT ![t] = "check"]
    /\ targ' = [targ EXCEPT ![t] = [id |-> id, obj |-> t]]
    /\ tres' = [tres EXCEPT ![t] = "none"]
    /\ UNCHANGED <<pending, ManagerVars, lock_log, added, misuse, started, QueryVars, prev, op, ret, out, nops,
                   node_configs, Env>>

AddCheck(t) ==
    /\ pc[t] = "check"
    /\ IF targ[t].id \in NetKeys(emane_nets)
       THEN /\ tres' = [tres EXCEPT ![t] = "CoreError:duplicate"]
            /\ pc' = [pc EXCEPT ![t] = "idle"]
            /\ lock' = None
       ELSE /\ pc' = [pc EXCEPT ![t] = "insert"]
            /\ UNCHANGED <<tres, lock>>
    /\ UNCHANGED <<targ, pending, ManagerVars, lock_log, added, misuse, started, QueryVars, prev, op, ret, out, nops,
                   node_configs, Env>>

AddInsert(t) ==
    /\ pc[t] = "insert"
    /\ emane_nets' = DictSet(emane_nets, targ[t])
    /\ added' = [added EXCEPT ![targ[t].id] = Append(@, t)]
    /\ tres' = [tres EXCEPT ![t] = "ok"]
    /\ pc' = [pc EXCEPT ![t] = "idle"]
    /\ lock' = None
    /\ UNCHANGED <<targ, pending, nems_to_ifaces, ifaces_to_nems, wireless_model, nem_file, issued,
                   running, link_monitor, services, poshook, lock_log, misuse, started,
                   QueryVars, prev, op, ret, out, nops, node_configs, Env>>

(* startup_nodes, reset and next_nem_id step by step, one thread among several *)
\* with self._emane_node_lock: (line 253), then get_ifaces() (line 255)
SnAcquire(t) ==
    /\ pc[t] = "idle"
    /\ CanAcquire(lock)
    /\ Called
    /\ lock' = t
    /\ pc' = [pc EXCEPT ![t] = "sn_loop"]
    /\ pending' = [pending EXCEPT ![t] = get_ifaces(emane_nets, wireless_model, topo)]
    /\ tres' = [tres EXCEPT ![t] = "none"]
    /\ UNCHANGED <<targ, ManagerVars, lock_log, added, misuse, started, QueryVars, prev, op, ret, out,
                   node_configs, Env>>

\* how a step of thread t inside the with block ends: an exception leaves the
\* block, which releases the lock
SnStep(t, m, next, rest) ==
    /\ Commit(m, "startup_nodes", "None", FALSE)
    /\ IF m.exc # "none"
       THEN /\ lock' = None
            /\ pc' = [pc EXCEPT ![t] = "idle"]
            /\ tres' = [tres EXCEPT ![t] = m.exc]
            /\ pending' = [pending EXCEPT ![t] = <<>>]
       ELSE /\ pc' = [pc EXCEPT ![t] = next]
            /\ pending' = [pending EXCEPT ![t] = rest]
            /\ UNCHANGED <<lock, tres>>
    /\ UNCHANGED <<targ, misuse, nops, node_configs, Env>>

\* start_iface of the next interface, up to the platform XML
SnPrepare(t) ==
    /\ pc[t] = "sn_loop"
    /\ pending[t] # <<>>
    /\ SnStep(t, start_iface_prepare(Mgr, topo, nem_id_start, node_configs, pending[t][1][1],
                                     pending[t][1][2], ~disk_ok),
              "sn_launch", pending[t])

\* the daemon launch of the interface and install_iface
SnLaunch(t) ==
    /\ pc[t] = "sn_launch"
    /\ SnStep(t, start_iface_launch(Mgr, topo, node_configs, event_generate, pending[t][1][1],
                                    pending[t][1][2], launch_fails),
              "sn_loop", Tail(pending[t]))

\* the end of the for loop and of the with block
SnRelease(t) ==
    /\ pc[t] = "sn_loop"
    /\ pending[t] = <<>>
    /\ lock' = None
    /\ pc' = [pc EXCEPT ![t] = "idle"]
    /\ tres' = [tres EXCEPT ![t] = "ok"]
    /\ UNCHANGED <<targ, pending, ManagerVars, lock_log, added, misuse, started, QueryVars, prev, op, ret,
                   out, nops, node_configs, Env>>

\* reset(): with self._emane_node_lock: (line 422)
RsAcquire(t) ==
    /\ pc[t] = "idle"
    /\ CanAcquire(lock)
    /\ Called
    /\ lock' = t
    /\ pc' = [pc EXCEPT ![t] = "rs_clear"]
    /\ tres' = [tres EXCEPT ![t] = "none"]
    /\ UNCHANGED <<targ, pending, ManagerVars, lock_log, added, misuse, started, QueryVars, prev, op, ret,
                   out, node_configs, Env>>

RsClear(t) ==
    /\ pc[t] = "rs_clear"
    /\ Commit(reset(Mgr), "reset", "None", TRUE)
    /\ lock' = None
    /\ pc' = [pc EXCEPT ![t] = "idle"]
    /\ tres' = [tres EXCEPT ![t] = "ok"]
    /\ UNCHANGED <<targ, pending, misuse, nops, node_configs, Env>>

\* next_nem_id(iface) called on its own: it takes no lock (lines 88-95)
NnCall(t, iface) ==
    /\ pc[t] = "idle"
    /\ Called
    /\ pc' = [pc EXCEPT ![t] = "nn_assign"]
    /\ targ' = [targ EXCEPT ![t] = [id |-> iface, obj |-> t]]
    /\ tres' = [tres EXCEPT ![t] = "none"]
    /\ UNCHANGED <<lock, pending, ManagerVars, lock_log, added, misuse, started, QueryVars, prev, op, ret,
                   out, node_configs, Env>>

NnAssign(t) ==
    /\ pc[t] = "nn_assign"
    /\ Commit(next_nem_id(Mgr, topo, nem_id_start, targ[t].id, ~disk_ok), "next_nem_id", "id",
              FALSE)
    /\ pc' = [pc EXCEPT ![t] = "idle"]
    /\ tres' = [tres EXCEPT ![t] = "ok"]
    /\ UNCHANGED <<lock, targ, pending, misuse, nops, node_configs, Env>>

(* the configuration store's operations *)
ConfigKeys ==
    {iface_config_id(NodeOf(k), IfaceIdOf(k)) : k \in Ifaces}
    \cup {IdKey(n) : n \in NodeIds \cup NetIds}

\* get_config reads node_configs only
GetConfig(key, model, default) ==
    /\ Called
    /\ LET result == get_config(node_configs, key, model, default)
       IN ret' = IF result.exc # "none" THEN result.exc
                 ELSE IF result.isnone THEN "None" ELSE "config"
    /\ op' = "get_config"
    /\ prev' = op
    /\ out' = <<>>
    /\ UNCHANGED <<ManagerVars, lock_log, added, misuse, started, QueryVars, node_configs, Env, ThreadVars>>

SetConfig(key, model, cfg) ==
    /\ Called
    /\ node_configs' = set_config(node_configs, key, model, cfg).store
    /\ op' = "set_config"
    /\ prev' = op
    /\ ret' = LET exc == set_config(node_configs, key, model, cfg).exc
              IN IF exc = "none" THEN "None" ELSE exc
    /\ out' = <<>>
    /\ UNCHANGED <<ManagerVars, lock_log, added, misuse, started, QueryVars, Env, ThreadVars>>

ConfigReset(node_id) ==
    /\ Called
    /\ node_configs' = config_reset_configs(node_configs, node_id)
    /\ node_models' = config_reset_models(node_models, node_id)
    /\ op' = "config_reset"
    /\ prev' = op
    /\ ret' = "None"
    /\ out' = <<>>
    /\ UNCHANGED <<ManagerVars, lock_log, added, misuse, started, QueryVars, topo, node_up,
                   session_nets, bindings, nem_id_start, link_enabled, event_generate,
                   disk_ok, launch_fails, kill_fails, podman, ThreadVars>>

(* ------------------------- the initial states --------------------------- *)
Dev(b) == IF b THEN 1 ELSE 0
RECURSIVE SumOver(_, _)
SumOver(f, S) ==
    IF S = {} THEN 0
    ELSE LET x == CHOOSE y \in S : TRUE IN f[x] + SumOver(f, S \ {x})
\* the network an interface is attached to unless the topology moves it
BaseNet(k) == ((k - 1) % MaxNets) + 1
TopoDev(t) ==
    SumOver([k \in Ifaces |-> Dev(t[k].node = None) + Dev(~t[k].tuntap)
                               + Dev(t[k].net # BaseNet(k))], Ifaces)
AllTopologies ==
    [Ifaces -> [node : NodeIds \cup {None}, net : NetIds, tuntap : BOOLEAN]]
WellFormed(t) == \A k \in Ifaces : t[k].node \in {NodeOf(k), None}
Topologies == {t \in AllTopologies : WellFormed(t) /\ TopoDev(t) <= MaxDeviations}
BaseTopology == [k \in Ifaces |-> [node |-> NodeOf(k), net |-> BaseNet(k), tuntap |-> TRUE]]
\* a config planted for the first interface's composite key
Planted ==
    Put(EmptyMap, iface_config_id(NodeOf(1), IfaceIdOf(1)),
        Put(EmptyMap, "rfpipe", Update(default_values("rfpipe"), [o \in OptNames |-> 1])))
\* node models are declared only for networks that have no model yet
NodeModelChoices(wm) ==
    UNION {[D -> {"bypass", "ghost"}] : D \in SUBSET {n \in NetIds : wm[n] = NoModel}}
\* how far an initial state is from the plain session: every network in the
\* session (or none) and with a model, every interface a TunTap with its node up,
\* bindings installed, the options at their defaults, nothing configured
SessionDev == TopoDev(topo) + Dev(session_nets \notin {{}, NetIds})
OptionDev ==
    Dev(~bindings) + Dev(nem_id_start # 1) + Dev(link_enabled # 0) + Dev(~event_generate)
NodeDev ==
    Cardinality({n \in NodeIds : ~node_up[n]})
    + Cardinality({n \in NetIds : wireless_model[n] = NoModel})
StoreDev == Dev(node_configs # EmptyMap) + Dev(~disk_ok)
FaultDev == Dev(launch_fails # None) + Dev(kill_fails # None)

InitManager ==
    /\ emane_nets = <<>>
    /\ nems_to_ifaces = EmptyMap
    /\ ifaces_to_nems = EmptyMap
    /\ nem_file = <<>>
    /\ running = {}
    /\ link_monitor = FALSE
    /\ services = {}
    /\ poshook = {}
    /\ lock_log = <<>>
    /\ issued = <<>>
    /\ misuse = NoMisuse
    /\ prev = "init"
    /\ op = "init"
    /\ ret = "None"
    /\ out = <<>>
    /\ nops = 0
    /\ added = [id \in NetIds |-> <<>>]
    /\ started = "none"
    /\ link = NoLink
    /\ position = [n \in NodeIds |-> NoPosition]
    /\ events_in = <<>>
    /\ moved = <<>>
InitThreads ==
    /\ lock = None
    /\ pc = [t \in Threads |-> "idle"]
    /\ targ = [t \in Threads |-> [id |-> 1, obj |-> t]]
    /\ tres = [t \in Threads |-> "none"]
    /\ pending = [t \in Threads |-> <<>>]
InitBaseEnv ==
    /\ session_nets = NetIds
    /\ bindings = TRUE
    /\ nem_id_start = 1
    /\ link_enabled = 0
    /\ event_generate = TRUE
    /\ node_up = [n \in NodeIds |-> TRUE]
    /\ node_models = EmptyMap
    /\ node_configs = EmptyMap
    /\ disk_ok = TRUE
    /\ launch_fails = None
    /\ kill_fails = None
    /\ gone = {}

\* the lifecycle, called by one thread
Init ==
    /\ InitManager
    /\ InitThreads
    /\ podman = PodmanNode(FALSE, FALSE, {}, {}, {})
    /\ topo \in Topologies
    /\ session_nets \in SUBSET NetIds
    /\ SessionDev <= MaxDeviations
    /\ bindings \in BOOLEAN
    /\ nem_id_start \in NemStarts
    /\ link_enabled \in LinkEnabledValues
    /\ event_generate \in BOOLEAN
    /\ SessionDev + OptionDev <= MaxDeviations
    /\ node_up \in [NodeIds -> BOOLEAN]
    /\ wireless_model \in [NetIds -> {"rfpipe", NoModel}]
    /\ SessionDev + OptionDev + NodeDev <= MaxDeviations
    /\ node_models \in NodeModelChoices(wireless_model)
    /\ node_configs \in {EmptyMap, Planted}
    /\ disk_ok \in BOOLEAN
    /\ SessionDev + OptionDev + NodeDev + StoreDev <= MaxDeviations
    /\ launch_fails \in Ifaces \cup {None}
    /\ kill_fails \in Ifaces \cup {None}
    /\ SessionDev + OptionDev + NodeDev + StoreDev + FaultDev <= MaxDeviations
    /\ gone = {}

Next ==
    \/ Startup
    \/ Setup
    \/ StartupNodes
    \/ Shutdown
    \/ Reset
    \/ \E iface \in Ifaces : NextNemId(iface)
    \/ \E id \in NetIds : AddNode(id)

Spec == Init /\ [][Next]_vars

\* the lifecycle with poststartup
NextLife ==
    \/ Startup
    \/ Setup
    \/ StartupNodes
    \/ Poststartup
    \/ Shutdown
    \/ Reset
    \/ \E iface \in Ifaces : NextNemId(iface)
    \/ \E id \in NetIds : AddNode(id)

SpecLife == Init /\ [][NextLife]_vars

\* add_node called from several threads, with reset in between
InitAdd ==
    /\ InitManager
    /\ InitThreads
    /\ podman = PodmanNode(FALSE, FALSE, {}, {}, {})
    /\ InitBaseEnv
    /\ topo = BaseTopology
    /\ wireless_model = [n \in NetIds |-> "rfpipe"]

NextAdd ==
    \/ \E t \in Threads, id \in NetIds : AddAcquire(t, id)
    \/ \E t \in Threads : AddCheck(t)
    \/ \E t \in Threads : AddInsert(t)
    \/ Reset

SpecAdd == InitAdd /\ [][NextAdd]_vars

\* the lock: startup_nodes, add_node, reset and next_nem_id from several threads
\* the networks are those the add_node calls register
NextLock ==
    \/ \E t \in Threads : SnAcquire(t)
    \/ \E t \in Threads : SnPrepare(t)
    \/ \E t \in Threads : SnLaunch(t)
    \/ \E t \in Threads : SnRelease(t)
    \/ \E t \in Threads, id \in NetIds : AddAcquire(t, id)
    \/ \E t \in Threads : AddCheck(t)
    \/ \E t \in Threads : AddInsert(t)
    \/ \E t \in Threads : RsAcquire(t)
    \/ \E t \in Threads : RsClear(t)
    \/ \E t \in Threads : NnCall(t, 1)
    \/ \E t \in Threads : NnAssign(t)

SpecLock == InitAdd /\ [][NextLock]_vars

\* the configuration store
InitConfig ==
    /\ InitManager
    /\ InitThreads
    /\ podman = PodmanNode(FALSE, FALSE, {}, {}, {})
    /\ InitBaseEnv
    /\ topo = BaseTopology
    /\ wireless_model = [n \in NetIds |-> "rfpipe"]

NextConfig ==
    \/ \E key \in ConfigKeys, model \in ModelNames, cfg \in Configs : SetConfig(key, model, cfg)
    \/ \E n \in NodeIds \cup {None} : ConfigReset(n)

SpecConfig == InitConfig /\ [][NextConfig]_vars

\* the config store with model selections, every store operation
StoreKeys ==
    {iface_config_id(NodeOf(1), IfaceIdOf(1)), IdKey(NodeOf(1)), IdKey(NodeOf(MaxIfaces))}

InitStore ==
    /\ InitManager
    /\ InitThreads
    /\ podman = PodmanNode(FALSE, FALSE, {}, {}, {})
    /\ session_nets = NetIds
    /\ bindings = TRUE
    /\ nem_id_start = 1
    /\ link_enabled = 0
    /\ event_generate = TRUE
    /\ node_up = [n \in NodeIds |-> TRUE]
    /\ node_models \in UNION {[D -> {"bypass"}] : D \in SUBSET NodeIds}
    /\ node_configs = EmptyMap
    /\ disk_ok = TRUE
    /\ launch_fails = None
    /\ kill_fails = None
    /\ gone = {}
    /\ topo = BaseTopology
    /\ wireless_model = [n \in NetIds |-> "rfpipe"]

NextStore ==
    \/ \E key \in StoreKeys, model \in ModelNames, default \in BOOLEAN :
          GetConfig(key, model, default)
    \/ \E key \in StoreKeys, model \in ModelNames, cfg \in Configs : SetConfig(key, model, cfg)
    \/ \E n \in NodeIds \cup {None} : ConfigReset(n)

SpecStore == InitStore /\ [][NextStore]_vars

\* start_iface with every effective config of the first network's interfaces
FullConfigs == [OptNames \cup GroupOptNames -> OptValues]
InitIface ==
    /\ InitManager
    /\ InitThreads
    /\ podman = PodmanNode(FALSE, FALSE, {}, {}, {})
    /\ session_nets = NetIds
    /\ bindings = TRUE
    /\ nem_id_start = 1
    /\ link_enabled = 0
    /\ event_generate \in BOOLEAN
    /\ node_up = [n \in NodeIds |-> TRUE]
    /\ node_models = EmptyMap
    /\ node_configs \in {Put(EmptyMap, IdKey(1), Put(EmptyMap, "rfpipe", cfg)) : cfg \in FullConfigs}
    /\ disk_ok = TRUE
    /\ launch_fails \in {None, 1}
    /\ kill_fails = None
    /\ gone = {}
    /\ topo = BaseTopology
    /\ wireless_model = [n \in NetIds |-> "rfpipe"]

NextIface ==
    \/ Startup
    \/ \E iface \in Ifaces : StartIface(iface)

SpecIface == InitIface /\ [][NextIface]_vars

\* get_ifaces over every topology
InitTopo ==
    /\ InitManager
    /\ InitThreads
    /\ podman = PodmanNode(FALSE, FALSE, {}, {}, {})
    /\ InitBaseEnv
    /\ topo \in {t \in AllTopologies : WellFormed(t)}
    /\ wireless_model \in [NetIds -> {"rfpipe", NoModel}]

NextTopo ==
    \/ \E id \in NetIds : AddNode(id)
    \/ GetIfaces

SpecTopo == InitTopo /\ [][NextTopo]_vars

\* get_nem_link on the maps a startup leaves
InitLink ==
    /\ InitManager
    /\ InitThreads
    /\ podman = PodmanNode(FALSE, FALSE, {}, {}, {})
    /\ session_nets = NetIds
    /\ bindings = TRUE
    /\ nem_id_start \in NemStarts
    /\ link_enabled = 0
    /\ event_generate = TRUE
    /\ node_up = [n \in NodeIds |-> TRUE]
    /\ node_models = EmptyMap
    /\ node_configs = EmptyMap
    /\ disk_ok = TRUE
    /\ launch_fails = None
    /\ kill_fails = None
    /\ gone = {}
    /\ topo \in {t \in AllTopologies : WellFormed(t) /\ \A k \in Ifaces : t[k].tuntap}
    /\ wireless_model = [n \in NetIds |-> "rfpipe"]

NextLink ==
    \/ Startup
    \/ \E nem1 \in NemProbes, nem2 \in NemProbes, flags \in Flags : GetNemLink(nem1, nem2, flags)

SpecLink == InitLink /\ [][NextLink]_vars

\* inbound location events on the maps a startup leaves
InitLocOn(topologies) ==
    /\ InitManager
    /\ InitThreads
    /\ podman = PodmanNode(FALSE, FALSE, {}, {}, {})
    /\ session_nets = NetIds
    /\ bindings = TRUE
    /\ nem_id_start = 1
    /\ link_enabled = 0
    /\ event_generate = TRUE
    /\ node_up = [n \in NodeIds |-> TRUE]
    /\ node_models = EmptyMap
    /\ node_configs = EmptyMap
    /\ disk_ok = TRUE
    /\ launch_fails = None
    /\ kill_fails = None
    /\ gone \in {G \in SUBSET NodeIds : Cardinality(G) <= 1}
    /\ topo \in topologies
    /\ wireless_model = [n \in NetIds |-> "rfpipe"]

\* inbound batches in a session that has every node
InitLoc == InitLocOn({BaseTopology})

\* outbound publication: also a topology where one interface gets no NEM id
InitPos == InitLocOn({BaseTopology, [BaseTopology EXCEPT ![1].tuntap = FALSE]})

InitEvents ==
    /\ InitManager
    /\ InitThreads
    /\ podman = PodmanNode(FALSE, FALSE, {}, {}, {})
    /\ InitBaseEnv
    /\ topo = BaseTopology
    /\ wireless_model = [n \in NetIds |-> "rfpipe"]

NextLoc ==
    \/ Startup
    \/ \E nemid \in LocProbes, g \in LocInputs : HandleToXyz(nemid, g[1], g[2], g[3])

SpecLoc == InitLoc /\ [][NextLoc]_vars

PosInputs == {<<g, g, g>> : g \in 0 .. 1}
NextPos ==
    \/ Startup
    \/ \E nemid \in LocProbes, g \in PosInputs : HandleToXyz(nemid, g[1], g[2], g[3])
    \/ \E iface \in Ifaces : GetNemPosition(iface)
    \/ \E iface \in Ifaces : SetNemPosition(iface)
    \/ \E moved_ifaces \in MovedLists : SetNemPositions(moved_ifaces)

SpecPos == InitPos /\ [][NextPos]_vars

NextEvents ==
    \/ Startup
    \/ \E events \in Batches : HandleLocationEvent(events)

SpecEvents == InitEvents /\ [][NextEvents]_vars

\* a podman node: startup, shutdown, and interfaces created on the started node
PodmanStartup(fail) ==
    /\ podman' = PodmanNode_startup(podman, fail)
    /\ UNCHANGED <<ManagerVars, lock_log, added, misuse, started, QueryVars, prev, op, ret, out,
                   nops, node_configs, BaseEnv, ThreadVars>>

PodmanShutdown(fail) ==
    /\ podman' = PodmanNode_shutdown(podman, fail)
    /\ UNCHANGED <<ManagerVars, lock_log, added, misuse, started, QueryVars, prev, op, ret, out,
                   nops, node_configs, BaseEnv, ThreadVars>>

\* an interface created on the node while it is up
PodmanCreateIface(iface) ==
    /\ podman.up
    /\ iface \notin podman.ifaces
    /\ podman' = [podman EXCEPT !.ifaces = @ \cup {iface},
                                !.op = "create_iface", !.out = <<>>, !.ret = "None"]
    /\ UNCHANGED <<ManagerVars, lock_log, added, misuse, started, QueryVars, prev, op, ret, out,
                   nops, node_configs, BaseEnv, ThreadVars>>

InitPodman ==
    /\ InitManager
    /\ InitThreads
    /\ InitBaseEnv
    /\ topo = BaseTopology
    /\ wireless_model = [n \in NetIds |-> "rfpipe"]
    /\ \E compose \in BOOLEAN, compose_name \in BOOLEAN, binds \in SUBSET (1..MaxBinds),
          volumes \in SUBSET (1..MaxVolumes) :
          \E delete \in SUBSET volumes :
             podman = PodmanNode(compose, compose_name, binds, volumes, delete)

NextPodman ==
    \/ \E fail \in 0..MaxCmds : PodmanStartup(fail)
    \/ \E fail \in 0..MaxCmds : PodmanShutdown(fail)
    \/ \E iface \in Ifaces : PodmanCreateIface(iface)

SpecPodman == InitPodman /\ [][NextPodman]_vars

(* ------------------------------- the claims ---------------------------- *)
Inverse ==
    /\ \A n \in DOMAIN nems_to_ifaces :
          /\ nems_to_ifaces[n] \in DOMAIN ifaces_to_nems
          /\ ifaces_to_nems[nems_to_ifaces[n]] = n
    /\ \A i \in DOMAIN ifaces_to_nems :
          /\ ifaces_to_nems[i] \in DOMAIN nems_to_ifaces
          /\ nems_to_ifaces[ifaces_to_nems[i]] = i

\* C1 as stated: whenever every direct next_nem_id call was made on an interface
\* without a NEM id, the two maps are inverses of each other, whatever startup,
\* startup_nodes, shutdown and reset calls were made.
C1_InverseAsStated == ~misuse.direct => Inverse

\* C1 amended: when every next_nem_id call, direct or made by startup_nodes
\* through start_iface, was on an interface without a NEM id, nems_to_ifaces and
\* ifaces_to_nems are inverses of each other: no NEM id maps to two interfaces
\* and no interface holds two NEM ids.
C1_Inverse == (~misuse.direct /\ ~misuse.nodes) => Inverse

C1_Witness ==
    /\ op = "next_nem_id"
    /\ prev = "startup"
    /\ ~misuse.direct /\ ~misuse.nodes
    /\ Cardinality(DOMAIN nems_to_ifaces) >= 2
    /\ Cardinality(DOMAIN ifaces_to_nems) >= 2

\* C2: the ids handed out by next_nem_id since the last reset are strictly
\* increasing, so none is handed out twice before a reset; a shutdown in
\* between releases none.
C2_Increasing == \A j \in 1 .. (Len(issued) - 1) : issued[j] < issued[j + 1]

C2_Witness ==
    /\ op = "next_nem_id"
    /\ prev = "shutdown"
    /\ emane_nets # <<>>
    /\ Len(issued) >= 3

\* C3: a next_nem_id(iface) call hands out the smallest integer >= nem_id_start
\* that was not a key of nems_to_ifaces when it was called, and records it for
\* iface in both maps, leaving every other entry of nems_to_ifaces alone.
C3_SmallestFree ==
    [][\A iface \in Ifaces :
          NextNemId(iface) =>
             LET n == issued'[Len(issued')]
             IN /\ n >= nem_id_start
                /\ n \notin DOMAIN nems_to_ifaces
                /\ \A k \in nem_id_start .. (n - 1) : k \in DOMAIN nems_to_ifaces
                /\ DOMAIN nems_to_ifaces' = (DOMAIN nems_to_ifaces) \cup {n}
                /\ nems_to_ifaces'[n] = iface
                /\ iface \in DOMAIN ifaces_to_nems'
                /\ ifaces_to_nems'[iface] = n
                /\ \A k \in DOMAIN nems_to_ifaces : nems_to_ifaces'[k] = nems_to_ifaces[k]]_vars

C3_Witness ==
    /\ op = "next_nem_id"
    /\ ret = "id"
    /\ nem_id_start # 1
    /\ Len(issued) >= 2
    /\ issued[Len(issued)] > nem_id_start

\* C4: every interface with an assigned NEM id n >= 1 has the NEM port 47000 + n.
C4_PortDerivation ==
    \A i \in DOMAIN ifaces_to_nems :
        ifaces_to_nems[i] >= 1 => get_nem_port(ifaces_to_nems, i) = 47000 + ifaces_to_nems[i]

Stored(key, model) == key \in DOMAIN node_configs /\ model \in DOMAIN node_configs[key]
FirstHit(model, net_id, k) ==
    LET k1 == iface_config_id(NodeOf(k), IfaceIdOf(k))
        k2 == IdKey(NodeOf(k))
        k3 == IdKey(net_id)
    IN IF Stored(k1, model) THEN node_configs[k1][model]
       ELSE IF Stored(k2, model) THEN node_configs[k2][model]
       ELSE IF Stored(k3, model) THEN node_configs[k3][model]
       ELSE default_values(model)

\* C5: for every network, model and interface, get_iface_config returns the
\* config stored for the model under the key (node_id, iface_id) when there is
\* one, else the one stored under node_id, else the one stored under the network
\* id, and the model's default values only when none of the three is stored.
C5_Priority ==
    \A k \in Ifaces, net_id \in NetIds, model \in Registered :
        get_iface_config(node_configs, model, net_id, NodeOf(k), IfaceIdOf(k))
            = FirstHit(model, net_id, k)

C5_Witness ==
    /\ op = "set_config"
    /\ \E k \in Ifaces, net_id \in NetIds, model \in Registered :
          LET k1 == iface_config_id(NodeOf(k), IfaceIdOf(k))
              k2 == IdKey(NodeOf(k))
              k3 == IdKey(net_id)
          IN /\ Stored(k1, model) /\ Stored(k2, model) /\ Stored(k3, model)
             /\ node_configs[k1][model] # node_configs[k2][model]
             /\ node_configs[k2][model] # node_configs[k3][model]
             /\ node_configs[k1][model] # node_configs[k3][model]
             /\ node_configs[k1][model] # default_values(model)

Sorted(r) ==
    \A j \in 1 .. (Len(r) - 1) :
        \/ topo[r[j][2]].node < topo[r[j + 1][2]].node
        \/ /\ topo[r[j][2]].node = topo[r[j + 1][2]].node
           /\ IfaceIdOf(r[j][2]) < IfaceIdOf(r[j + 1][2])
WithModelAndNode ==
    {<<n, k>> \in NetKeys(emane_nets) \X Ifaces :
        wireless_model[n] # NoModel /\ topo[k].net = n /\ topo[k].node # None}

\* C6 as stated: get_ifaces() returns exactly the (network, iface) pairs of the
\* registered networks that have a model and whose interface has a node, sorted
\* ascending by (node_id, iface_id).
C6_PairsAsStated ==
    LET r == get_ifaces(emane_nets, wireless_model, topo)
    IN /\ Range(r) = WithModelAndNode
       /\ Len(r) = Cardinality(WithModelAndNode)
       /\ Sorted(r)

\* C6 amended: get_ifaces() returns exactly the (network, iface) pairs of the
\* registered networks that have a model and whose interface has a node and is a
\* TunTap, each once, sorted ascending by (node_id, iface_id); the other networks
\* and interfaces contribute no pair.
C6_Pairs ==
    LET r == get_ifaces(emane_nets, wireless_model, topo)
        want == {p \in WithModelAndNode : topo[p[2]].tuntap}
    IN /\ Range(r) = want
       /\ Len(r) = Cardinality(want)
       /\ Sorted(r)

C6_Witness ==
    /\ op = "get_ifaces"
    /\ Len(get_ifaces(emane_nets, wireless_model, topo)) >= 1
    /\ \E k \in Ifaces :
          /\ topo[k].net \in NetKeys(emane_nets)
          /\ wireless_model[topo[k].net] # NoModel
          /\ topo[k].node = None
    /\ \E k \in Ifaces :
          /\ topo[k].net \in NetKeys(emane_nets)
          /\ wireless_model[topo[k].net] = NoModel
          /\ topo[k].node # None

IsLaunch(e) == e[1] = "launch"
Launched(log) == LET l == SelectSeq(log, IsLaunch) IN [j \in 1 .. Len(l) |-> l[j][2]]

\* C7: after a startup that returned SUCCESS, the k-th pair (k = 0, 1, ...) of
\* get_ifaces() holds NEM id nem_id_start + k in both maps, the daemons were
\* launched in that order and, when the index file can be written, its last lines
\* are the lines of these interfaces in that order.
C7_StartupOrder ==
    (op = "startup" /\ ret = "SUCCESS") =>
        LET L == get_ifaces(emane_nets, wireless_model, topo)
            n == Len(L)
        IN /\ DOMAIN nems_to_ifaces = {nem_id_start + k : k \in 0 .. (n - 1)}
           /\ DOMAIN ifaces_to_nems = {L[j][2] : j \in 1 .. n}
           /\ \A j \in 1 .. n :
                 /\ nems_to_ifaces[nem_id_start + j - 1] = L[j][2]
                 /\ ifaces_to_nems[L[j][2]] = nem_id_start + j - 1
           /\ Launched(out) = [j \in 1 .. n |-> L[j][2]]
           /\ disk_ok =>
                 /\ Len(nem_file) >= n
                 /\ \A j \in 1 .. n :
                       nem_file[Len(nem_file) - n + j]
                           = <<topo[L[j][2]].node, L[j][2], nem_id_start + j - 1>>

C7_Witness ==
    /\ op = "startup"
    /\ ret = "SUCCESS"
    /\ disk_ok
    /\ nem_id_start # 1
    /\ Len(get_ifaces(emane_nets, wireless_model, topo)) >= 3
    /\ Len(nem_file) >= 3

\* C8: while the map is not cleared, exactly one add_node call per network id
\* has succeeded when the id is registered, and the entry is the object that
\* call carried; a call that ends with the duplicate error found the id
\* registered and leaves the map as it was, and a call that succeeds adds its
\* own object as a new entry.
C8_AddNodeOnce ==
    /\ [](/\ Len(emane_nets) = Cardinality(NetKeys(emane_nets))
          /\ \A id \in NetIds :
                IF id \in NetKeys(emane_nets)
                THEN /\ Len(added[id]) = 1
                     /\ \E j \in DOMAIN emane_nets :
                           emane_nets[j] = [id |-> id, obj |-> added[id][1]]
                ELSE added[id] = <<>>)
    /\ [][\A t \in Threads :
             (pc[t] # "idle" /\ pc'[t] = "idle") =>
                IF tres'[t] = "ok"
                THEN /\ targ[t].id \notin NetKeys(emane_nets)
                     /\ emane_nets' = Append(emane_nets, targ[t])
                ELSE /\ tres'[t] = "CoreError:duplicate"
                     /\ targ[t].id \in NetKeys(emane_nets)
                     /\ emane_nets' = emane_nets]_vars

C8_Witness ==
    \E t1 \in Threads, t2 \in Threads :
        /\ t1 # t2
        /\ targ[t1].id = targ[t2].id
        /\ pc[t1] = "idle" /\ pc[t2] = "idle"
        /\ tres[t1] = "ok"
        /\ tres[t2] = "CoreError:duplicate"
        /\ added[targ[t1].id] = <<t1>>
        /\ \E j \in DOMAIN emane_nets : emane_nets[j] = targ[t1]

NoStart(log) ==
    \A j \in DOMAIN log : log[j][1] \notin {"launch", "link_monitor_start", "create_service"}

\* C9: in a session without radio network startup() returns NOT_NEEDED, has
\* allocated no NEM id, launched no daemon and not started the link monitor; a
\* shutdown() that follows a startup which returned NOT_NEEDED makes no external
\* call (no kill, no link monitor stop, no event manager shutdown) and changes
\* nothing.
C9_EmptySession ==
    /\ []((op = "startup" /\ session_nets = {}) =>
             /\ ret = "NOT_NEEDED"
             /\ issued = <<>>
             /\ DOMAIN nems_to_ifaces = {}
             /\ DOMAIN ifaces_to_nems = {}
             /\ NoStart(out)
             /\ ~link_monitor)
    /\ [][(op = "startup" /\ ret = "NOT_NEEDED" /\ Shutdown) =>
             (out' = <<>> /\ UNCHANGED ManagerVars)]_vars

C9_Witness ==
    /\ op = "shutdown"
    /\ prev = "startup"
    /\ session_nets = {}
    /\ link_enabled = 1
    /\ out = <<>>

\* C10 as stated: whenever the bindings are missing, startup() raises the
\* missing-bindings error.
C10_BindingsAsStated == (op = "startup" /\ ~bindings) => ret = "CoreError:bindings"

\* C10 amended: whenever the bindings are missing and the session holds at least
\* one radio network, startup() raises the missing-bindings error instead of
\* returning a state.
C10_Bindings ==
    (op = "startup" /\ ~bindings /\ session_nets # {}) => ret = "CoreError:bindings"

C10_Witness ==
    /\ op = "startup"
    /\ ~bindings
    /\ session_nets # {}
    /\ ret = "CoreError:bindings"
    /\ emane_nets # <<>>

SetupErrors == {"CoreError:bindings", "ValueError", "CoreError:model"}
\* a registered network has neither a model nor a declared node model
Unresolved ==
    \E n \in NetKeys(emane_nets) : wireless_model[n] = NoModel /\ n \notin DOMAIN node_models

\* C11: when setup() fails inside startup() (the bindings are missing while the
\* session holds a radio network, or a registered network has neither a model
\* nor a declared node model), startup() ends with setup's error and has started
\* nothing: no NEM id is allocated, no index line written, no event service
\* created, no daemon launched and the link monitor is not started.
C11_SetupFailure ==
    /\ []((/\ op = "startup"
           /\ \/ ret \in SetupErrors
              \/ emane_nets # <<>> /\ (~bindings \/ Unresolved))
          => /\ ret \in SetupErrors
             /\ started = "raised"
             /\ issued = <<>>
             /\ DOMAIN nems_to_ifaces = {}
             /\ DOMAIN ifaces_to_nems = {}
             /\ NoStart(out))
    /\ [][(Startup /\ ret' \in SetupErrors) =>
             /\ running' = running
             /\ link_monitor' = link_monitor
             /\ nem_file' = nem_file
             /\ poshook' = poshook]_vars

C11_Witness ==
    /\ op = "startup"
    /\ ret = "ValueError"
    /\ bindings
    /\ Len(get_ifaces(emane_nets, wireless_model, topo)) >= 1

\* C12 as stated: when start_iface fails for one interface during startup(),
\* startup() still returns SUCCESS and every other interface of get_ifaces() has
\* its daemon running.
C12_IfaceFailureIsolated ==
    (op = "startup" /\ ret \notin SetupErrors /\ ret # "NOT_NEEDED") =>
        /\ ret = "SUCCESS"
        /\ \A p \in Range(get_ifaces(emane_nets, wireless_model, topo)) :
               p[2] # launch_fails => p[2] \in running

NoKill(log) == \A j \in DOMAIN log : log[j][1] # "kill"
Did(log, what) == \E j \in DOMAIN log : log[j] = what

\* C13 as stated: after a startup() that returned SUCCESS, a shutdown() that
\* directly follows a shutdown() returns normally and issues no kill command.
C13_ShutdownIdempotent ==
    [][(started = "SUCCESS" /\ op = "shutdown" /\ ret = "None" /\ Shutdown) =>
          (ret' = "None" /\ NoKill(out'))]_vars

\* C14 as stated: whenever a startup() returned SUCCESS and daemons it launched
\* are still running, a shutdown() call (no command of which fails) stops the
\* link monitor when it was started, kills the daemon of every such interface
\* whose node is up and calls the event manager's shutdown, also when reset()
\* was called in between.
C14_ShutdownStops ==
    [][(started = "SUCCESS" /\ running # {} /\ kill_fails = None /\ Shutdown) =>
          /\ \A i \in running :
                node_up[topo[i].node] => Did(out', <<"kill", i, 0>>)
          /\ Did(out', <<"event_shutdown", 0, 0>>)
          /\ link_monitor => (Did(out', <<"link_monitor_stop", 0, 0>>) /\ ~link_monitor')]_vars

\* C15 as stated: a shutdown() on a non-empty network map issues the kill command
\* for every interface of get_ifaces() whose node is up and calls the event
\* manager's shutdown, also when the kill command of one interface raises.
C15_ShutdownBestEffort ==
    [][(emane_nets # <<>> /\ Shutdown) =>
          /\ \A p \in Range(get_ifaces(emane_nets, wireless_model, topo)) :
                node_up[topo[p[2]].node] => Did(out', <<"kill", p[2], 0>>)
          /\ Did(out', <<"event_shutdown", 0, 0>>)]_vars

\* C16 as stated: after a shutdown() that returned, called on a manager whose
\* startup() returned SUCCESS, no interface has a position hook left, whether
\* its node is up or down.
C16_HooksCleared ==
    (op = "shutdown" /\ ret = "None" /\ prev = "startup" /\ started = "SUCCESS") => poshook = {}

\* C17: reset() can be called in every state; when it has returned the network
\* map, nems_to_ifaces and ifaces_to_nems are empty and the event manager was
\* reset, and the next_nem_id call that directly follows a reset returns
\* nem_id_start.
C17_Reset ==
    /\ [](nops < MaxOps => ENABLED Reset)
    /\ [](op = "reset" =>
             /\ ret = "None"
             /\ emane_nets = <<>>
             /\ DOMAIN nems_to_ifaces = {}
             /\ DOMAIN ifaces_to_nems = {}
             /\ services = {}
             /\ out = << <<"event_reset", 0, 0>> >>)
    /\ [][\A iface \in Ifaces :
             (op = "reset" /\ NextNemId(iface)) =>
                /\ issued' = <<nem_id_start>>
                /\ nems_to_ifaces' = Put(EmptyMap, nem_id_start, iface)
                /\ ifaces_to_nems' = Put(EmptyMap, iface, nem_id_start)]_vars

C17_Witness ==
    /\ op = "next_nem_id"
    /\ prev = "reset"
    /\ issued = <<nem_id_start>>
    /\ Len(nem_file) >= 3
    /\ nem_id_start # 1

Known(nem) == nem \in DOMAIN nems_to_ifaces

\* C18: a get_nem_link(nem1, nem2, flags) call returns None, raising nothing,
\* when nem1 or nem2 is not a key of nems_to_ifaces or the two interfaces are on
\* different networks; otherwise it returns a wireless LinkData with the two
\* interfaces' node ids, the id of the network they share, that network's
\* color and flags as its message type.
C18_NemLink ==
    op = "get_nem_link" =>
        IF \/ ~Known(link.nem1)
           \/ ~Known(link.nem2)
           \/ topo[nems_to_ifaces[link.nem1]].net # topo[nems_to_ifaces[link.nem2]].net
        THEN ret = "None" /\ link.ret = LinkNone
        ELSE LET i1 == nems_to_ifaces[link.nem1]
                 i2 == nems_to_ifaces[link.nem2]
             IN /\ ret = "LinkData"
                /\ link.ret.kind = "link"
                /\ link.ret.type = "WIRELESS"
                /\ link.ret.message_type = link.flags
                /\ link.ret.node1_id = NodeOf(i1)
                /\ link.ret.node2_id = NodeOf(i2)
                /\ link.ret.network_id = topo[i1].net
                /\ link.ret.network_id = topo[i2].net
                /\ link.ret.color = get_link_color(topo[i1].net)

C18_Witness ==
    /\ op = "get_nem_link"
    /\ prev = "get_nem_link"
    /\ ret = "LinkData"
    /\ link.nem1 # link.nem2
    /\ link.flags = "ADD"
    /\ \E n \in DOMAIN nems_to_ifaces :
          topo[nems_to_ifaces[n]].net # topo[nems_to_ifaces[link.nem1]].net

InRange(v) == 0 <= v /\ v <= 65535

\* C19: a handlelocationeventtoxyz call for a known NEM returns False, leaves
\* every node's position as it was and broadcasts nothing when one of the
\* integer-truncated x, y, z is negative or greater than 65535; when all three
\* are within 0 .. 65535 and the session has the node, it writes (x, y, z) and
\* (lon, lat, alt) to the node's position, broadcasts the node exactly once
\* and returns True.
C19_CoordinateRange ==
    [][(op' = "handlelocationeventtoxyz" /\ nops' # nops /\ Known(events_in'[1].nem)) =>
          LET nemid == events_in'[1].nem
              lat == events_in'[1].attrs["latitude"]
              lon == events_in'[1].attrs["longitude"]
              alt == events_in'[1].attrs["altitude"]
              n == NodeOf(nems_to_ifaces[nemid])
              x == PyInt(Projected(lon))
              y == PyInt(Projected(lat))
              z == PyInt(Projected(alt))
          IN IF ~(InRange(x) /\ InRange(y) /\ InRange(z))
             THEN /\ ret' = "False"
                  /\ position' = position
                  /\ out' = << <<"log_error", nemid, 0>> >>
             ELSE IF n \notin gone
             THEN /\ ret' = "True"
                  /\ position' = [position EXCEPT ![n] =
                                     [xyz |-> <<x, y, z>>, geo |-> <<lon, lat, alt>>]]
                  /\ out' = << <<"broadcast", n, 0>> >>
             ELSE /\ ret' = "False"
                  /\ position' = position
                  /\ out' = << <<"log_exception", nemid, n>> >>]_vars

C19_Witness ==
    /\ op = "handlelocationeventtoxyz"
    /\ prev = "handlelocationeventtoxyz"
    /\ ret = "False"
    /\ Known(events_in[1].nem)
    /\ events_in[1].attrs["altitude"] = MaxGeo
    /\ out = << <<"log_error", events_in[1].nem, 0>> >>
    /\ position[NodeOf(nems_to_ifaces[events_in[1].nem])].xyz = <<65535, 0, 0>>

\* the entry as the handler may read it: the three geographic attributes only
Strip(event) == [nem |-> event.nem, attrs |-> [a \in GeoAttrs |-> event.attrs[a]]]
RECURSIVE Translate(_, _)
Translate(st, events) ==
    IF events = <<>> THEN st
    ELSE LET e == Strip(events[1])
         IN Translate(handlelocationeventtoxyz(st, nems_to_ifaces, topo, gone, e.nem,
                          e.attrs["latitude"], e.attrs["longitude"], e.attrs["altitude"]),
                      Tail(events))
NotWarning(e) == e[1] # "log_warning"
IsWarning(e) == e[1] = "log_warning"

\* C20: handlelocationevent returns without raising, and what it does to the
\* nodes and what it broadcasts, in order, is what translating the entries that
\* hold latitude, longitude and altitude does, one after the other in arrival
\* order and reading these three attributes only; every other entry leaves a
\* warning and nothing else.
C20_BatchFiltering ==
    [][(op' = "handlelocationevent" /\ nops' # nops) =>
          LET good == SelectSeq(events_in', Complete)
              want == Translate(Loc, good)
          IN /\ ret' = "None"
             /\ position' = want.pos
             /\ SelectSeq(out', NotWarning) = want.out
             /\ Len(SelectSeq(out', IsWarning)) = Len(events_in') - Len(good)]_vars

C20_Witness ==
    /\ op = "handlelocationevent"
    /\ ret = "None"
    /\ Len(events_in) = 2
    /\ ~Complete(events_in[1])
    /\ "yaw" \in DOMAIN events_in[2].attrs
    /\ Len(out) = 2
    /\ out[1][1] = "log_warning"
    /\ out[2][1] = "broadcast"

HasNem(iface) == iface \in DOMAIN ifaces_to_nems
IsPublish(e) == e[1] \in {"publish_location", "publish_locations", "batch_entry"}
IsBroadcast(e) == e[1] = "broadcast"

\* C21: for an interface without NEM id get_nem_position returns None and
\* set_nem_position publishes nothing, neither raising; set_nem_positions
\* publishes one batch holding exactly the moved interfaces that have a NEM id,
\* in order, each with its NEM id; handlelocationeventtoxyz for a NEM id that is
\* not registered returns False, changes no node position and broadcasts
\* nothing.
C21_UnknownNem ==
    [][nops' # nops =>
          /\ (op' = "get_nem_position" /\ ~HasNem(moved'[1])) =>
                (ret' = "None" /\ position' = position /\ SelectSeq(out', IsPublish) = <<>>)
          /\ (op' = "get_nem_position" /\ HasNem(moved'[1])) => ret' = "position"
          /\ (op' = "set_nem_position" /\ ~HasNem(moved'[1])) =>
                (ret' = "None" /\ position' = position /\ SelectSeq(out', IsPublish) = <<>>)
          /\ (op' = "set_nem_position" /\ HasNem(moved'[1])) =>
                SelectSeq(out', IsPublish)
                    = << <<"publish_location", moved'[1], ifaces_to_nems[moved'[1]]>> >>
          /\ (op' = "set_nem_positions" /\ moved' # <<>>) =>
                LET with == SelectSeq(moved', HasNem)
                IN /\ ret' = "None"
                   /\ SelectSeq(out', IsPublish)
                         = [j \in 1 .. Len(with) |->
                               <<"batch_entry", with[j], ifaces_to_nems[with[j]]>>]
                           \o << <<"publish_locations", Len(with), 0>> >>
          /\ (op' = "handlelocationeventtoxyz" /\ ~Known(events_in'[1].nem)) =>
                (ret' = "False" /\ position' = position /\ SelectSeq(out', IsBroadcast) = <<>>)]_vars

C21_Witness ==
    /\ op = "set_nem_positions"
    /\ ret = "None"
    /\ Len(moved) = MaxIfaces
    /\ ~HasNem(moved[1])
    /\ HasNem(moved[2])
    /\ Did(out, <<"publish_locations", MaxIfaces - 1, 0>>)

\* C22: for every key, model and default flag, get_config on the current store
\* returns the config stored for (key, model) when there is one, else the
\* model's default values when default is true and None when it is false; for a
\* model that is not registered it raises CoreError; and a get_config call
\* leaves the store as it was.
C22_GetConfig ==
    /\ [](\A key \in ConfigKeys, model \in ModelNames, default \in BOOLEAN :
            LET r == get_config(node_configs, key, model, default)
            IN IF model \notin Registered THEN r = Raised("CoreError:model")
               ELSE IF Stored(key, model) THEN r = Some(node_configs[key][model])
               ELSE IF default THEN r = Some(default_values(model))
               ELSE r = NoneResult)
    /\ [][op' = "get_config" /\ nops' # nops =>
             /\ node_configs' = node_configs
             /\ node_models' = node_models]_vars

C22_Witness ==
    /\ op = "get_config"
    /\ ret = "None"
    /\ prev = "set_config"
    /\ \E key \in StoreKeys : Stored(key, "rfpipe") /\ ~Stored(key, "bypass")

\* the config in effect for (key, model): the stored one, or the defaults
Effective(key, model) ==
    IF Stored(key, model) THEN node_configs[key][model] ELSE default_values(model)
StoredIn(store, key, model) == key \in DOMAIN store /\ model \in DOMAIN store[key]

\* C23: for every key, registered model and cfg, the store after set_config
\* holds for (key, model) the config in effect before with every entry of cfg
\* overriding it, and holds for every other (key, model) what it held before;
\* for a model that is not registered set_config raises CoreError and the store
\* is as before.
C23_SetConfig ==
    \A key \in ConfigKeys, model \in ModelNames, cfg \in Configs :
        LET r == set_config(node_configs, key, model, cfg)
        IN IF model \notin Registered
           THEN r.exc = "CoreError:model" /\ r.store = node_configs
           ELSE /\ r.exc = "none"
                /\ StoredIn(r.store, key, model)
                /\ r.store[key][model]
                      = [o \in (DOMAIN Effective(key, model)) \cup (DOMAIN cfg) |->
                            IF o \in DOMAIN cfg THEN cfg[o] ELSE Effective(key, model)[o]]
                /\ \A k2 \in ConfigKeys, m2 \in ModelNames :
                      <<k2, m2>> # <<key, model>> =>
                          /\ StoredIn(r.store, k2, m2) <=> Stored(k2, m2)
                          /\ Stored(k2, m2) => r.store[k2][m2] = node_configs[k2][m2]

C23_Witness ==
    /\ op = "set_config"
    /\ prev = "set_config"
    /\ ret = "None"
    /\ \E key \in StoreKeys :
          /\ Stored(key, "rfpipe") /\ Stored(key, "bypass")
          /\ node_configs[key]["rfpipe"] # default_values("rfpipe")
          /\ node_configs[key]["bypass"] # node_configs[key]["rfpipe"]

\* C24: config_reset() leaves no stored config and no model selection;
\* config_reset(node_id) leaves get_config(node_id, model, default=False) None
\* for every registered model and the node without model selection, while
\* every other key holds the configs it held and every other node the model
\* selection it had.
C24_ConfigReset ==
    /\ config_reset_configs(node_configs, None) = EmptyMap
    /\ config_reset_models(node_models, None) = EmptyMap
    /\ \A node_id \in NodeIds :
          LET store == config_reset_configs(node_configs, node_id)
              models == config_reset_models(node_models, node_id)
          IN /\ \A model \in Registered :
                   get_config(store, IdKey(node_id), model, FALSE) = NoneResult
             /\ node_id \notin DOMAIN models
             /\ \A n \in NodeIds \ {node_id} :
                   /\ n \in DOMAIN models <=> n \in DOMAIN node_models
                   /\ n \in DOMAIN node_models => models[n] = node_models[n]
             /\ \A key \in ConfigKeys \ {IdKey(node_id)}, model \in ModelNames :
                   /\ StoredIn(store, key, model) <=> Stored(key, model)
                   /\ Stored(key, model) => store[key][model] = node_configs[key][model]

C24_Witness ==
    /\ op = "config_reset"
    /\ prev = "set_config"
    /\ IdKey(NodeOf(1)) \in DOMAIN node_configs
    /\ node_configs[IdKey(NodeOf(1))] = EmptyMap
    /\ Stored(iface_config_id(NodeOf(1), IfaceIdOf(1)), "rfpipe")
    /\ DOMAIN node_models = NodeIds \ {NodeOf(1)}

\* the entries of a log that are about one interface
About(log, iface) == SelectSeq(log, LAMBDA e : e[2] = iface)
Names(log) == [j \in DOMAIN log |-> log[j][1]]
IsRoute(e) == e[1] = "create_route"
NotRoute(e) == e[1] # "create_route"
\* the steps of one start_iface call, in order; the last ones may be missing
StepOrder == <<"create_service", "platform_xml", "launch", "set_ips", "publish_location">>
RECURSIVE SubSeqOf(_, _)
SubSeqOf(a, b) ==
    IF a = <<>> THEN TRUE
    ELSE IF b = <<>> THEN FALSE
    ELSE IF a[1] = b[1] THEN SubSeqOf(Tail(a), Tail(b))
    ELSE SubSeqOf(a, Tail(b))

\* C28: in every start_iface call, of startup or direct, the steps of an
\* interface come in the order event service, routes, platform XML, daemon
\* launch, addresses, position hook, each at most once; the service and the
\* launch carry the NEM id the maps hold for the interface and the XML the port
\* derived from it; a launch has the service and the XML before it and a hook
\* is installed by the call only after its launch.
C28_StepOrder ==
    [][(op' \in {"start_iface", "startup"} /\ nops' # nops) =>
          \A iface \in Ifaces :
              LET log == About(out', iface)
                  steps == Names(SelectSeq(log, NotRoute))
              IN /\ SubSeqOf(steps, StepOrder)
                 /\ \A j \in DOMAIN log :
                       /\ log[j][1] \in {"create_service", "launch", "publish_location"} =>
                             /\ iface \in DOMAIN ifaces_to_nems'
                             /\ log[j][3] = ifaces_to_nems'[iface]
                       /\ log[j][1] = "platform_xml" =>
                             log[j][3] = get_nem_port(ifaces_to_nems', iface)
                       /\ log[j][1] = "create_route" =>
                             /\ j > 1 /\ j < Len(log)
                             /\ log[j - 1][1] \in {"create_service", "create_route"}
                             /\ log[j + 1][1] \in {"platform_xml", "create_route"}
                 /\ Did(log, <<"launch", iface, ifaces_to_nems'[iface]>>) =>
                       /\ Len(steps) >= 3
                       /\ steps[1] = "create_service" /\ steps[2] = "platform_xml"
                 /\ (iface \in poshook' /\ (op' = "startup" \/ iface \notin poshook)) =>
                       /\ Len(steps) >= 4
                       /\ steps[3] = "launch"
                       /\ steps[Len(steps)] = "publish_location"]_vars

C28_Witness ==
    /\ op = "start_iface"
    /\ ret = "None"
    /\ Names(out) = <<"create_service", "create_route", "create_route", "platform_xml",
                      "launch", "set_ips", "publish_location">>

\* the config start_iface resolves for an interface
EffectiveConfig(iface) ==
    get_iface_config(node_configs, wireless_model'[topo[iface].net], topo[iface].net,
                     topo[iface].node, IfaceIdOf(iface))
Count(log, name) == Len(SelectSeq(log, LAMBDA e : e[1] = name))

\* C29: every control channel setup of a start_iface call, of startup or
\* direct, installs the route of the OTA group first, and a second route, that
\* of the event group, exactly when the event group is not the OTA group; no
\* group gets two routes from one setup.
C29_Routes ==
    [][(op' \in {"start_iface", "startup"} /\ nops' # nops) =>
          \A iface \in Ifaces :
              LET log == About(out', iface)
                  routes == SelectSeq(log, IsRoute)
                  otagroup == GroupOf(EffectiveConfig(iface)["otamanagergroup"])
                  eventgroup == GroupOf(EffectiveConfig(iface)["eventservicegroup"])
              IN IF Count(log, "create_service") = 0 THEN routes = <<>>
                 ELSE /\ routes = IF eventgroup # otagroup
                                  THEN << <<"create_route", iface, otagroup>>,
                                          <<"create_route", iface, eventgroup>> >>
                                  ELSE << <<"create_route", iface, otagroup>> >>
                      /\ \A a, b \in DOMAIN routes : routes[a][3] = routes[b][3] => a = b]_vars

\* different "<group>:<port>" strings with the same group: one route
C29_Witness ==
    /\ op = "start_iface"
    /\ ret = "None"
    /\ \E cfg \in FullConfigs :
          /\ node_configs = Put(EmptyMap, IdKey(1), Put(EmptyMap, "rfpipe", cfg))
          /\ cfg["otamanagergroup"] # cfg["eventservicegroup"]
          /\ GroupOf(cfg["otamanagergroup"]) = GroupOf(cfg["eventservicegroup"])
    /\ Count(out, "create_route") = 1
    /\ topo[out[1][2]].net = 1

\* C30: a start_iface call whose daemon launch succeeded calls set_ips exactly
\* when the external option of the effective config is "0", and install_iface
\* does so for a config without the option; with location events generated the
\* interface has the position hook afterwards and the hook ran once, publishing
\* once; without, the hook is as before and nothing is published.
C30_InstallIface ==
    /\ [](\A iface \in Ifaces, cfg \in [GroupOptNames -> OptValues] :
            Count(install_iface(Mgr, event_generate, iface, nem_id_start, cfg).out, "set_ips") = 1)
    /\ [][(op' \in {"start_iface", "startup"} /\ nops' # nops) =>
             \A iface \in Ifaces :
                 LET log == About(out', iface)
                 IN IF Count(log, "launch") = 1 /\ iface # launch_fails
                    THEN /\ Count(log, "set_ips")
                               = IF EffectiveConfig(iface)["external"] = 0 THEN 1 ELSE 0
                         /\ IF event_generate
                            THEN /\ iface \in poshook'
                                 /\ Count(log, "publish_location") = 1
                            ELSE /\ iface \in poshook' <=> iface \in poshook
                                 /\ Count(log, "publish_location") = 0
                    ELSE /\ Count(log, "set_ips") = 0
                         /\ Count(log, "publish_location") = 0
                         /\ iface \in poshook' <=> iface \in poshook]_vars

C30_Witness ==
    /\ op = "start_iface"
    /\ ret = "None"
    /\ event_generate
    /\ Names(out) = <<"create_service", "create_route", "platform_xml", "launch",
                      "publish_location">>

\* C27 as stated: a startup() starts the link monitor exactly when the
\* link_enabled option is not zero and the startup returns SUCCESS.
C27_MonitorIffTruthy ==
    [][(op' = "startup" /\ nops' # nops) =>
          (Did(out', <<"link_monitor_start", 0, 0>>)
               <=> (link_enabled # 0 /\ ret' = "SUCCESS"))]_vars

\* C25 as stated: a thread whose startup_nodes is launching a daemon does not
\* hold the node lock.
C25_LockReleasedForLaunch == \A t \in Threads : pc[t] = "sn_launch" => lock # t

MapsChange ==
    \/ emane_nets' # emane_nets
    \/ nems_to_ifaces' # nems_to_ifaces
    \/ ifaces_to_nems' # ifaces_to_nems

\* C26 as stated: every step that changes the network map, nems_to_ifaces or
\* ifaces_to_nems is taken by a thread that holds the node lock.
C26_MutationsLocked ==
    [][MapsChange => \E t \in Threads : pc'[t] # pc[t] /\ lock = t]_vars

\* the interfaces of the registered networks
RegisteredIfaces == {k \in Ifaces : topo[k].net \in NetKeys(emane_nets)}
MapsUnchanged ==
    /\ emane_nets' = emane_nets
    /\ nems_to_ifaces' = nems_to_ifaces
    /\ ifaces_to_nems' = ifaces_to_nems

\* C31 as stated: every poststartup() calls setposition once for every interface
\* of every registered network when location events are generated and for none
\* when they are not, and leaves the maps as they are.
C31_PoststartupAsStated ==
    [][(op' = "poststartup" /\ nops' # nops) =>
          /\ \A k \in Ifaces :
                Count(About(out', k), "setposition")
                    = IF event_generate /\ k \in RegisteredIfaces THEN 1 ELSE 0
          /\ MapsUnchanged]_vars

\* C31: a poststartup() on a manager whose registered networks all have a
\* model, as after a startup() that returned SUCCESS, returns normally, calls
\* setposition once for every interface of every registered network when
\* location events are generated and for none when they are not; with no
\* registered network it calls nothing; a publication comes only from a
\* setposition; and every poststartup() leaves the network map and the NEM maps
\* as they are.
C31_Poststartup ==
    [][(op' = "poststartup" /\ nops' # nops) =>
          /\ MapsUnchanged
          /\ emane_nets = <<>> => (out' = <<>> /\ ret' = "None")
          /\ Count(out', "publish_location") <= Count(out', "setposition")
          /\ (\A n \in NetKeys(emane_nets) : wireless_model[n] # NoModel) =>
                /\ ret' = "None"
                /\ \A k \in Ifaces :
                      Count(About(out', k), "setposition")
                          = IF event_generate /\ k \in RegisteredIfaces THEN 1 ELSE 0]_vars

C31_Witness ==
    /\ op = "poststartup"
    /\ prev = "startup"
    /\ started = "SUCCESS"
    /\ Count(out, "setposition") = MaxIfaces
    /\ Count(out, "publish_location") = MaxIfaces

\* C32: handling inbound location events publishes nothing outbound, also for
\* interfaces that have their position hook installed, and leaves the hooks as
\* they are: the only external call of an accepted event is the broadcast of
\* the node.
C32_NoPublicationLoop ==
    [][(op' \in {"handlelocationeventtoxyz", "handlelocationevent"} /\ nops' # nops) =>
          /\ SelectSeq(out', IsPublish) = <<>>
          /\ Count(out', "setposition") = 0
          /\ poshook' = poshook
          /\ ret' = "True" => out' = << <<"broadcast", topo[nems_to_ifaces[events_in'[1].nem]].node, 0>> >>]_vars

C32_Witness ==
    /\ op = "handlelocationeventtoxyz"
    /\ ret = "True"
    /\ events_in[1].nem \in DOMAIN nems_to_ifaces
    /\ nems_to_ifaces[events_in[1].nem] \in poshook
    /\ position[topo[nems_to_ifaces[events_in[1].nem]].node] # NoPosition

Allocators == {"next_nem_id", "start_iface", "startup_nodes", "startup"}
\* every entry of nems_to_ifaces is kept and no interface loses its NEM id
NemsKept ==
    /\ \A n \in DOMAIN nems_to_ifaces :
          n \in DOMAIN nems_to_ifaces' /\ nems_to_ifaces'[n] = nems_to_ifaces[n]
    /\ DOMAIN ifaces_to_nems \subseteq DOMAIN ifaces_to_nems'

\* C33: shutdown() and poststartup() leave the network map and both NEM maps
\* unchanged; only next_nem_id, start_iface, startup_nodes and startup add NEM
\* ids; an operation other than reset and startup keeps every NEM id there is;
\* reset leaves all three maps empty, and after a startup the NEM ids are those
\* allocated since its reset.
C33_ReleasedTogether ==
    [][nops' # nops =>
          /\ op' \in {"shutdown", "poststartup"} => MapsUnchanged
          /\ op' \notin Allocators => DOMAIN nems_to_ifaces' \subseteq DOMAIN nems_to_ifaces
          /\ op' \notin {"reset", "startup"} => NemsKept
          /\ op' = "reset" =>
                /\ emane_nets' = <<>>
                /\ nems_to_ifaces' = EmptyMap
                /\ ifaces_to_nems' = EmptyMap
          /\ op' = "startup" =>
                /\ DOMAIN nems_to_ifaces' = Range(issued')
                /\ Len(issued') = Cardinality(DOMAIN ifaces_to_nems')]_vars

C33_Witness ==
    /\ op = "shutdown"
    /\ prev = "poststartup"
    /\ Cardinality(DOMAIN nems_to_ifaces) = MaxIfaces
    /\ running = {}

IsPrefix(a, b) == Len(a) <= Len(b) /\ SubSeq(b, 1, Len(a)) = a

\* C34: every operation leaves the lines the NEM index file has as they are
\* and only adds lines after them, one at most for every NEM id it allocates;
\* a next_nem_id that returns with the file writable adds exactly the line of
\* the interface's node, the interface and the id it returns; with the file not
\* writable it adds none, and still records and returns the id.
C34_AppendOnly ==
    [][nops' # nops =>
          /\ IsPrefix(nem_file, nem_file')
          /\ Len(nem_file') - Len(nem_file)
                <= IF op' \in {"startup", "reset"} THEN Len(issued')
                   ELSE Len(issued') - Len(issued)
          /\ op' = "next_nem_id" =>
                LET nem_id == issued'[Len(issued')]
                    iface == nems_to_ifaces'[nem_id]
                IN /\ Len(issued') = Len(issued) + 1
                   /\ nem_id \notin DOMAIN nems_to_ifaces
                   /\ ifaces_to_nems'[iface] = nem_id
                   /\ (ret' = "id" /\ disk_ok) =>
                         nem_file' = Append(nem_file, <<topo[iface].node, iface, nem_id>>)
                   /\ ~disk_ok => (ret' = "id" /\ nem_file' = nem_file)]_vars

C34_Witness ==
    /\ op = "startup"
    /\ prev = "reset"
    /\ Len(issued) = MaxIfaces
    /\ Len(nem_file) = 2 * MaxIfaces

(* ------------------------- the node lock, one thread -------------------- *)
\* the number of times the thread holds the lock after the events of log
RECURSIVE Held(_)
Held(log) ==
    IF log = <<>> THEN 0
    ELSE Held(SubSeq(log, 1, Len(log) - 1))
            + (IF log[Len(log)] = "acquire" THEN 1 ELSE -1)

\* C35: in no operation of the manager (add_node, setup, startup,
\* startup_nodes, poststartup, reset, shutdown), the position
\* hook fired inside install_iface and poststartup included, does the calling
\* thread take _emane_node_lock while it holds it: every acquire finds the
\* lock not held by the thread, every release finds it held, and the
\* operation ends with the lock released, after a return as after an
\* exception, so that the next operation of the thread can take it
C35_NoSelfDeadlock ==
    [][nops' # nops =>
          /\ \A j \in DOMAIN lock_log' :
                Held(SubSeq(lock_log', 1, j - 1))
                    = IF lock_log'[j] = "acquire" THEN 0 ELSE 1
          /\ Held(lock_log') = 0]_vars

\* a startup that registered two networks, started the interfaces with the
\* position hook firing inside install_iface, and took the lock four times
C35_Witness ==
    /\ op = "startup" /\ ret = "SUCCESS" /\ prev = "poststartup"
    /\ Len(lock_log) = 8
    /\ \E j \in DOMAIN out : out[j][1] = "publish_location"

(* ------------------- a NEM id after a failed start_iface ---------------- *)
\* C36: when startup() or startup_nodes() ends with an exception of
\* start_iface raised after next_nem_id recorded an id (in the configuration,
\* the control channels, the platform XML or the daemon launch), the id it
\* recorded last is in neither map afterwards: no interface keeps a NEM id
\* without a daemon launch that was issued and went through
C36_NoNemAfterFailure ==
    [][(/\ nops' # nops
        /\ op' \in {"startup", "startup_nodes"}
        /\ ret' \in {"AttributeError", "CoreCommandError"}
        /\ Len(issued') > (IF op' = "startup" THEN 0 ELSE Len(issued)))
       => LET nem_id == issued'[Len(issued')]
          IN /\ nem_id \notin DOMAIN nems_to_ifaces'
             /\ \A iface \in DOMAIN ifaces_to_nems' : ifaces_to_nems'[iface] # nem_id]_vars

(* --------------------------- startup, repeated -------------------------- *)
\* C37: startup() can be called again and again on the same session, after
\* a shutdown or not, and with networks registered through add_node before:
\* it never raises the duplicate-network CoreError, and when it returns
\* SUCCESS the network map holds exactly the session's radio networks, each
\* once and as the session's object, and the NEM ids it issued are
\* nem_id_start, nem_id_start + 1, ... in the order of issue
C37_StartupRepeatable ==
    [][(nops' # nops /\ op' = "startup") =>
          /\ ret' # "CoreError:duplicate"
          /\ ret' = "SUCCESS" =>
                /\ Range(emane_nets') = {[id |-> n, obj |-> SessionObj] : n \in session_nets}
                /\ Len(emane_nets') = Cardinality(session_nets)
                /\ \A j \in DOMAIN issued' : issued'[j] = nem_id_start + j - 1
                /\ DOMAIN nems_to_ifaces' = Range(issued')]_vars

\* a second successful startup, called right after an add_node, on a session
\* whose first startup had issued an id to every interface
C37_Witness ==
    /\ op = "startup" /\ ret = "SUCCESS" /\ prev = "add_node"
    /\ emane_nets # <<>>
    /\ Len(issued) = MaxIfaces
    /\ Len(nem_file) = 2 * MaxIfaces

(* --------------------------- the podman up flag ------------------------- *)
\* C38: the up flag of a podman node follows a two-state machine: startup()
\* on a node that is up raises an error and issues no command; startup()
\* sets up only after the container was created and the pid read; shutdown()
\* on a node that is not up issues no command; shutdown() on a node that is
\* up, when none of its commands fails, clears its interfaces, removes the
\* container and every volume marked delete (a remove command is issued for
\* each), and sets up to false, so that a second shutdown issues no command
C38_UpFlag ==
    [][podman' # podman =>
          /\ (podman'.op = "startup" /\ podman.up) =>
                /\ podman'.ret = "CoreError:up"
                /\ podman'.out = <<>>
                /\ podman'.up
          /\ (podman'.op = "startup" /\ ~podman.up /\ podman'.up) =>
                /\ podman'.container
                /\ podman'.pid # 0
                /\ \E j \in DOMAIN podman'.out :
                      /\ podman'.out[j][1] \in {"run", "compose_up"}
                      /\ podman'.out[Len(podman'.out)][1] = "inspect_pid"
                      /\ j < Len(podman'.out)
          /\ (podman'.op = "shutdown" /\ ~podman.up) =>
                /\ podman'.out = <<>>
                /\ ~podman'.up
          /\ (podman'.op = "shutdown" /\ podman.up /\ podman'.ret = "None") =>
                /\ podman'.ifaces = {}
                /\ ~podman'.container
                /\ \A v \in podman.delete : <<"volume_rm", v>> \in Range(podman'.out)
                /\ ~podman'.up]_vars
====
